---- MODULE Spec2Model ----
(***************************************************************************)
(* Shelf: a browser-resident collection manager (React).                   *)
(*                                                                         *)
(* The model follows App.tsx: the persisted AppState aggregate, the        *)
(* ephemeral view/modal state of the App component, the setAppState        *)
(* updaters of the mutation handlers, and the event handlers of the        *)
(* sidebar, the item panel (ItemModal), the collection dialog              *)
(* (CollectionModal) and the confirmation dialog (AlertDialog).            *)
(*                                                                         *)
(* It also follows the view pipeline (filteredItems, availableStatuses)     *)
(* with the search box, sort select and filter chips, and useStickyState:  *)
(* the load from and the write to localStorage.                            *)
(*                                                                         *)
(* Collection names, which handleSave trims, are sequences of chunks; a    *)
(* chunk is either the whitespace chunk " " or a run of non-whitespace     *)
(* text. Field values and the search text, which the pipeline lowercases,  *)
(* searches and compares, and field names, which the title lookups         *)
(* lowercase, are sequences of one-character strings. Every                *)
(* other string is opaque and compared by equality only.                   *)
(***************************************************************************)
EXTENDS Integers, Sequences, FiniteSets, TLC

VARIABLES
    appState,           \* useStickyState<AppState>: collections, items, darkMode
    activeView,         \* 'all', 'favorites', or a collection id
    itemModalOpen,      \* the item panel is shown
    selectedItem,       \* Item | null handed to the item panel; null while the panel is
                        \* closed (it is read only by the open panel, and both ways of
                        \* opening the panel assign it first)
    collectionModalOpen,\* the collection dialog is shown
    editingCollection,  \* Collection | null handed to the collection dialog
    alertDialog,        \* pending confirmation (its onConfirm closure) | null
    created,            \* number of items created in this session (clock, id source)
    createdCols,        \* number of collections created in this session (id source)
    lastOp,             \* the mutation handler called by the last step, its id argument,
                        \* whether that id was present, and how many items it removed
    searchQuery,        \* the text of the search box
    sortOption,         \* SortOption chosen in the sort select
    filterOptions,      \* FilterOptions: onlyHasRating, statusValues
    storage,            \* localStorage: the text stored under 'shelf-app-data-v2'
    thrown,             \* the error that escaped the render of App, "none" if none
    fields,             \* CollectionModal: useState<FieldDefinition[]>, the form's field list
    fieldsAdded,        \* number of fields addField created in this session (id source)
    tags,               \* TagInput: the value prop, the tags of the tags field being edited
    draft,              \* TagInput: useState(''), the text in the tag box
    watchedUrl,         \* ItemModal: the value of the first url field, watched by useLinkPreview
    previewData,        \* useLinkPreview: useState<LinkPreviewData | null>
    previewLoading,     \* useLinkPreview: useState(false)
    timer,              \* useLinkPreview: the pending setTimeout callback (its url) | none
    inFlight,           \* fetches started and not yet settled: [n, url]
    fetchesStarted,     \* number of fetches started in this session
    imageValue          \* ItemModal: fieldValues[imageField.id]

\* state local to the dialogs' components
componentVars == <<fields, fieldsAdded, tags, draft, watchedUrl, previewData,
                   previewLoading, timer, inFlight, fetchesStarted, imageValue>>

vars == <<appState, activeView, itemModalOpen, selectedItem, collectionModalOpen,
          editingCollection, alertDialog, created, createdCols, lastOp,
          searchQuery, sortOption, filterOptions, storage, thrown, componentVars>>

----------------------------------------------------------------------------
(* Bounds *)

\* Ids (of items and of collections) generated in one session
MaxCreated == 4

\* Fields added to the collection dialog's field list in one session
MaxFields == 2

\* Link-preview fetches started in one session
MaxFetches == 3

----------------------------------------------------------------------------
(* Generic sequence helpers *)

Range(s) == { s[k] : k \in 1..Len(s) }

NoDup(s) == \A i, j \in 1..Len(s) : s[i] = s[j] => i = j

RECURSIVE Filter(_, _)
\* Array.prototype.filter with the predicate given as the set of kept values
Filter(s, keep) ==
    IF s = <<>> THEN <<>>
    ELSE IF Head(s) \in keep THEN <<Head(s)>> \o Filter(Tail(s), keep)
         ELSE Filter(Tail(s), keep)

----------------------------------------------------------------------------
(* String.prototype.trim on chunk sequences *)

WS == " "

RECURSIVE TrimStart(_)
TrimStart(s) ==
    IF s = <<>> THEN <<>>
    ELSE IF Head(s) = WS THEN TrimStart(Tail(s)) ELSE s

RECURSIVE TrimEnd(_)
TrimEnd(s) ==
    IF s = <<>> THEN <<>>
    ELSE IF s[Len(s)] = WS THEN TrimEnd(SubSeq(s, 1, Len(s) - 1)) ELSE s

trim(s) == TrimEnd(TrimStart(s))

----------------------------------------------------------------------------
(* Text: a string the code inspects is a sequence of one-character strings *)

Lower == <<"a", "b", "c", "d", "e", "f", "g", "h", "i", "j", "k", "l", "m",
           "n", "o", "p", "q", "r", "s", "t", "u", "v", "w", "x", "y", "z">>
Upper == <<"A", "B", "C", "D", "E", "F", "G", "H", "I", "J", "K", "L", "M",
           "N", "O", "P", "Q", "R", "S", "T", "U", "V", "W", "X", "Y", "Z">>
Digit == <<"0", "1", "2", "3", "4", "5", "6", "7", "8", "9">>

\* position of character c in alphabet a, 0 when it is not there
IndexOf(a, c) == IF c \in Range(a) THEN CHOOSE k \in 1..Len(a) : a[k] = c ELSE 0

\* String.prototype.charCodeAt for the characters used here
charCode(c) ==
    IF c \in Range(Digit) THEN 47 + IndexOf(Digit, c)
    ELSE IF c \in Range(Upper) THEN 64 + IndexOf(Upper, c)
    ELSE IF c \in Range(Lower) THEN 96 + IndexOf(Lower, c)
    ELSE 32

\* String.prototype.toLowerCase
toLowerCase(s) ==
    [k \in 1..Len(s) |-> IF s[k] \in Range(Upper) THEN Lower[IndexOf(Upper, s[k])] ELSE s[k]]

\* includes that only looks at the start of the text: s.startsWith(q)
includes_startsWith(s, q) == Len(q) <= Len(s) /\ SubSeq(s, 1, Len(q)) = q

\* String.prototype.includes
includes(s, q) == \E i \in 0..(Len(s) - Len(q)) : SubSeq(s, i + 1, i + Len(q)) = q

\* the field names and the literals the title lookups compare them with
Chars_Title == <<"T", "i", "t", "l", "e">>
Chars_title == <<"t", "i", "t", "l", "e">>
Chars_Name == <<"N", "a", "m", "e">>
Chars_Director == <<"D", "i", "r", "e", "c", "t", "o", "r">>
Chars_Rating == <<"R", "a", "t", "i", "n", "g">>
Chars_Status == <<"S", "t", "a", "t", "u", "s">>

RECURSIVE decimal(_)
\* the decimal digits of a natural number
decimal(n) ==
    IF n < 10 THEN <<Digit[n + 1]>> ELSE decimal(n \div 10) \o <<Digit[(n % 10) + 1]>>

RECURSIVE digitsValue(_)
digitsValue(s) ==
    IF s = <<>> THEN 0 ELSE 10 * digitsValue(SubSeq(s, 1, Len(s) - 1)) + IndexOf(Digit, s[Len(s)]) - 1

\* fieldValues[id] for a key that is not there
Undefined == [t |-> "undefined", n |-> 0, s |-> <<>>]

\* !val
falsy(val) ==
    \/ val.t = "undefined"
    \/ val.t = "number" /\ val.n = 0
    \/ val.t = "string" /\ val.s = <<>>

\* val || dflt
OrElse(val, dflt) == IF falsy(val) THEN dflt ELSE val

\* String(val)
String(val) ==
    IF val.t = "number" THEN decimal(val.n)
    ELSE IF val.t = "string" THEN val.s
    ELSE <<"u", "n", "d", "e", "f", "i", "n", "e", "d">>

\* Number(val): a number, or NaN
Number(val) ==
    IF val.t = "number" THEN [nan |-> FALSE, n |-> val.n]
    ELSE IF val.t = "string" /\ \A k \in 1..Len(val.s) : val.s[k] \in Range(Digit)
         THEN [nan |-> FALSE, n |-> digitsValue(val.s)]
    ELSE [nan |-> TRUE, n |-> 0]

RECURSIVE codeUnitLess(_, _)
\* a < b for strings: by UTF-16 code units
codeUnitLess(a, b) ==
    IF b = <<>> THEN FALSE
    ELSE IF a = <<>> THEN TRUE
    ELSE IF charCode(Head(a)) # charCode(Head(b)) THEN charCode(Head(a)) < charCode(Head(b))
    ELSE codeUnitLess(Tail(a), Tail(b))

\* collation weight of a character: blank, digits, then letters in
\* alphabetical order whatever their case
collationWeight(c) ==
    IF c \in Range(Digit) THEN IndexOf(Digit, c)
    ELSE IF c \in Range(Upper) THEN 10 + IndexOf(Upper, c)
    ELSE IF c \in Range(Lower) THEN 10 + IndexOf(Lower, c)
    ELSE 0

RECURSIVE collationCompare(_, _)
collationCompare(a, b) ==
    IF a = <<>> /\ b = <<>> THEN 0
    ELSE IF a = <<>> THEN -1
    ELSE IF b = <<>> THEN 1
    ELSE IF collationWeight(Head(a)) < collationWeight(Head(b)) THEN -1
    ELSE IF collationWeight(Head(a)) > collationWeight(Head(b)) THEN 1
    ELSE collationCompare(Tail(a), Tail(b))

\* String.prototype.localeCompare: alphabetical first, and between texts that
\* differ in case only, lower case first
localeCompare(a, b) ==
    IF collationCompare(a, b) # 0 THEN collationCompare(a, b)
    ELSE IF a = b THEN 0
    ELSE IF codeUnitLess(a, b) THEN 1 ELSE -1

----------------------------------------------------------------------------
(* types.ts *)

FieldDefinition(id, name, type, options) ==
    [id |-> id, name |-> name, type |-> type, options |-> options]

Item(id, collectionId, dateAdded, isFavorite, fieldValues) ==
    [id |-> id, collectionId |-> collectionId, dateAdded |-> dateAdded,
     isFavorite |-> isFavorite, fieldValues |-> fieldValues]

Collection(id, name, icon, color, description, fieldDefs, itemIds) ==
    [id |-> id, name |-> name, icon |-> icon, color |-> color,
     description |-> description, fields |-> fieldDefs, itemIds |-> itemIds]

\* null for Item | null and Collection | null
NullItem == Item("", "", 0, FALSE, <<>>)
NullCollection == Collection("", <<>>, "", "", "", <<>>, <<>>)
NullAlert == [kind |-> "none", id |-> ""]

\* A stored field value: a number or a string (a sequence of characters)
Num(n) == [t |-> "number", n |-> n, s |-> <<>>]
Str(s) == [t |-> "string", n |-> 0, s |-> s]

----------------------------------------------------------------------------
(* constants.ts: SEED_DATA *)

SEED_DATA ==
    [darkMode |-> FALSE,
     sidebarOpen |-> TRUE,
     collections |-> <<>>,
     \* Record<string, Item>, kept in insertion order (the order of Object.values)
     items |-> <<>>]

----------------------------------------------------------------------------
(* The item store: a JavaScript object used as an insertion-ordered map *)

ItemKeys(items) == { items[k].id : k \in 1..Len(items) }

HasItem(items, id) == id \in ItemKeys(items)

\* prev.items[id]
GetItem(items, id) == items[CHOOSE k \in 1..Len(items) : items[k].id = id]

\* { ...prev.items, [item.id]: item }
PutItem(items, item) ==
    IF HasItem(items, item.id)
    THEN [k \in 1..Len(items) |-> IF items[k].id = item.id THEN item ELSE items[k]]
    ELSE Append(items, item)

\* delete newItems[id]
RemoveItem(items, id) == Filter(items, { it \in Range(items) : it.id # id })

\* appState.collections.find(c => c.id === id)
HasCollection(collections, id) == \E k \in 1..Len(collections) : collections[k].id = id

FindCollection(collections, id) ==
    collections[CHOOSE k \in 1..Len(collections) :
        /\ collections[k].id = id
        /\ \A j \in 1..(k - 1) : collections[j].id # id]

----------------------------------------------------------------------------
(* App.tsx: the setAppState updaters of the mutation handlers *)

\* handleCreateCollection: collections: [...prev.collections, newCol]
handleCreateCollection(prev, newCol) ==
    [prev EXCEPT !.collections = Append(prev.collections, newCol)]

\* handleEditCollectionSave: prev.collections.map(c => c.id === col.id ? col : c)
handleEditCollectionSave(prev, col) ==
    [prev EXCEPT !.collections =
        [k \in 1..Len(prev.collections) |->
            IF prev.collections[k].id = col.id THEN col ELSE prev.collections[k]]]

\* handleDeleteCollection without the cascade: the items are left in the store
handleDeleteCollection_keepsItems(prev, id) ==
    [prev EXCEPT
        !.collections = Filter(prev.collections, { c \in Range(prev.collections) : c.id # id })]

\* handleDeleteCollection with the filter inverted: keeps only the matching collection
handleDeleteCollection_invertedFilter(prev, id) ==
    [prev EXCEPT
        !.collections = Filter(prev.collections, { c \in Range(prev.collections) : c.id = id }),
        !.items = Filter(prev.items, { it \in Range(prev.items) : it.collectionId # id })]

\* handleDeleteCollection: drop the collection and every item pointing to it
handleDeleteCollection(prev, id) ==
    [prev EXCEPT
        !.collections = Filter(prev.collections, { c \in Range(prev.collections) : c.id # id }),
        !.items = Filter(prev.items, { it \in Range(prev.items) : it.collectionId # id })]

\* handleSaveItem appending the new id: [...c.itemIds, item.id]
handleSaveItem_appends(prev, item) ==
    LET isNew == ~HasItem(prev.items, item.id)
    IN [prev EXCEPT
        !.items = PutItem(prev.items, item),
        !.collections =
            IF isNew
            THEN [k \in 1..Len(prev.collections) |->
                    IF prev.collections[k].id = item.collectionId
                    THEN [prev.collections[k] EXCEPT !.itemIds = Append(@, item.id)]
                    ELSE prev.collections[k]]
            ELSE prev.collections]

\* handleSaveItem without the isNew test: the id is prepended on every save
handleSaveItem_alwaysPrepends(prev, item) ==
    [prev EXCEPT
        !.items = PutItem(prev.items, item),
        !.collections =
            [k \in 1..Len(prev.collections) |->
                IF prev.collections[k].id = item.collectionId
                THEN [prev.collections[k] EXCEPT !.itemIds = <<item.id>> \o @]
                ELSE prev.collections[k]]]

\* handleSaveItem: store the item; prepend its id to its collection when new
handleSaveItem(prev, item) ==
    LET isNew == ~HasItem(prev.items, item.id)
        updatedItems == PutItem(prev.items, item)
        updatedCollections ==
            IF isNew
            THEN [k \in 1..Len(prev.collections) |->
                    IF prev.collections[k].id = item.collectionId
                    THEN [prev.collections[k] EXCEPT !.itemIds = <<item.id>> \o @]
                    ELSE prev.collections[k]]
            ELSE prev.collections
    IN [prev EXCEPT !.items = updatedItems, !.collections = updatedCollections]

\* handleDeleteItem that forgets the collection: the id stays in itemIds
handleDeleteItem_keepsId(prev, itemId) ==
    IF ~HasItem(prev.items, itemId) THEN prev
    ELSE [prev EXCEPT !.items = RemoveItem(prev.items, itemId)]

\* handleDeleteItem filtering every collection's itemIds, not only the owner's
handleDeleteItem_fromEveryCollection(prev, itemId) ==
    IF ~HasItem(prev.items, itemId) THEN prev
    ELSE [prev EXCEPT
            !.items = RemoveItem(prev.items, itemId),
            !.collections =
                [k \in 1..Len(prev.collections) |->
                    [prev.collections[k] EXCEPT !.itemIds = Filter(@, Range(@) \ {itemId})]]]

\* handleDeleteItem: no-op when absent, else drop the item and its id
handleDeleteItem(prev, itemId) ==
    IF ~HasItem(prev.items, itemId) THEN prev
    ELSE LET item == GetItem(prev.items, itemId)
         IN [prev EXCEPT
                !.items = RemoveItem(prev.items, itemId),
                !.collections =
                    [k \in 1..Len(prev.collections) |->
                        IF prev.collections[k].id = item.collectionId
                        THEN [prev.collections[k] EXCEPT
                                !.itemIds = Filter(@, Range(@) \ {itemId})]
                        ELSE prev.collections[k]]]

\* the view updater that never falls back: prev => prev
deleteCollectionView_keepsView(prev, id) == prev

\* handleDeleteCollection: setActiveView(prev => prev === id ? 'all' : prev)
deleteCollectionView(prev, id) == IF prev = id THEN "all" ELSE prev

\* toggleDarkMode
toggleDarkMode(prev) == [prev EXCEPT !.darkMode = ~prev.darkMode]

----------------------------------------------------------------------------
(* App.tsx: derived state *)

\* filteredItems, stage 1 (view filter)
viewFilter(items, view) ==
    IF view = "favorites" THEN Filter(items, { it \in Range(items) : it.isFavorite })
    ELSE IF view # "all" THEN Filter(items, { it \in Range(items) : it.collectionId = view })
    ELSE items

\* filteredItems, stage 2 searching the whole store instead of its input
searchFilter_searchesStore(its, query) ==
    IF query = <<>> THEN its
    ELSE Filter(appState.items,
                { i \in Range(appState.items) :
                    \E id \in DOMAIN i.fieldValues :
                        includes(toLowerCase(String(i.fieldValues[id])), toLowerCase(query)) })

\* filteredItems, stage 2 (search filter)
searchFilter(its, query) ==
    IF query = <<>> THEN its
    ELSE Filter(its,
                { i \in Range(its) :
                    \E id \in DOMAIN i.fieldValues :
                        includes(toLowerCase(String(i.fieldValues[id])), toLowerCase(query)) })

\* undefined for FieldDefinition | undefined
NullField == FieldDefinition("", <<>>, "", <<>>)

\* appState.collections.find(c => c.id === i.collectionId)
collectionOf(i) ==
    IF HasCollection(appState.collections, i.collectionId)
    THEN FindCollection(appState.collections, i.collectionId)
    ELSE NullCollection

\* col?.fields.find(f => f.type === type)
fieldOfType(col, type) ==
    IF \E k \in 1..Len(col.fields) : col.fields[k].type = type
    THEN col.fields[CHOOSE k \in 1..Len(col.fields) :
            /\ col.fields[k].type = type
            /\ \A j \in 1..(k - 1) : col.fields[j].type # type]
    ELSE NullField

\* i.fieldValues[id]
valueOf(i, id) == IF id \in DOMAIN i.fieldValues THEN i.fieldValues[id] ELSE Undefined

\* getRating, also the number tested by the 'has rating' filter
getRating(itm) ==
    LET ratingField == fieldOfType(collectionOf(itm), "rating")
    IN IF ratingField # NullField
       THEN Number(OrElse(valueOf(itm, ratingField.id), Num(0)))
       ELSE [nan |-> FALSE, n |-> 0]

\* getStatus, also the text tested by the status filter
getStatus(itm) ==
    LET sf == fieldOfType(collectionOf(itm), "status")
    IN IF sf # NullField THEN String(OrElse(valueOf(itm, sf.id), Str(<<>>))) ELSE <<>>

\* fields.find(test) || fields[0], test given as the set of fields passing it
findOrFirst(fs, passing) ==
    IF \E k \in 1..Len(fs) : fs[k] \in passing
    THEN fs[CHOOSE k \in 1..Len(fs) :
            /\ fs[k] \in passing
            /\ \A j \in 1..(k - 1) : fs[j] \notin passing]
    ELSE IF fs # <<>> THEN fs[1]
    ELSE NullField

\* getTitle: col?.fields.find(f => f.name === 'Title') || col?.fields[0]
sortTitleField(fs) ==
    findOrFirst(fs, { f \in Range(fs) : f.name = Chars_Title })

\* ItemCard: collection.fields.find(f => f.name.toLowerCase() === 'title')
\*           || collection.fields[0]
cardTitleField(fs) ==
    findOrFirst(fs, { f \in Range(fs) : toLowerCase(f.name) = Chars_title })

\* ItemModal: collection.fields.find(f => f.name.toLowerCase() === 'title')
\*            || collection.fields[0]
formTitleField(fs) ==
    findOrFirst(fs, { f \in Range(fs) : toLowerCase(f.name) = Chars_title })

\* getTitle
getTitle(itm) ==
    LET titleField == sortTitleField(collectionOf(itm).fields)
    IN IF titleField # NullField
       THEN String(OrElse(valueOf(itm, titleField.id), Str(<<>>)))
       ELSE <<>>

\* the 'has rating' filter letting through every item of a collection without
\* a rating field
ratingFilter_passesUnrated(its, options) ==
    IF options.onlyHasRating
    THEN Filter(its, { i \in Range(its) :
            IF fieldOfType(collectionOf(i), "rating") # NullField
            THEN ~getRating(i).nan /\ getRating(i).n > 0
            ELSE TRUE })
    ELSE its

\* filteredItems, stage 3: filterOptions.onlyHasRating
ratingFilter(its, options) ==
    IF options.onlyHasRating
    THEN Filter(its, { i \in Range(its) :
            IF fieldOfType(collectionOf(i), "rating") # NullField
            THEN ~getRating(i).nan /\ getRating(i).n > 0
            ELSE FALSE })
    ELSE its

\* filteredItems, stage 3: filterOptions.statusValues
statusFilter(its, options) ==
    IF Len(options.statusValues) > 0
    THEN Filter(its, { i \in Range(its) :
            IF fieldOfType(collectionOf(i), "status") # NullField
            THEN getStatus(i) \in Range(options.statusValues)
            ELSE FALSE })
    ELSE its

\* a - b for two results of Number(): NaN (which sort takes as 0) if either is
minus(a, b) == IF a.nan \/ b.nan THEN 0 ELSE a.n - b.n

\* the comparator with 'date_asc' ordering like 'date_desc'
compare_ascendingAsDescending(option, a, b) ==
    CASE option = "date_asc" -> b.dateAdded - a.dateAdded
      [] option = "date_desc" -> b.dateAdded - a.dateAdded
      [] option = "title_asc" -> localeCompare(getTitle(a), getTitle(b))
      [] option = "title_desc" -> localeCompare(getTitle(b), getTitle(a))
      [] option = "rating_desc" -> minus(getRating(b), getRating(a))
      [] option = "rating_asc" -> minus(getRating(a), getRating(b))
      [] option = "status_asc" -> localeCompare(getStatus(a), getStatus(b))
      [] OTHER -> 0

\* the comparator handed to items.sort
compare(option, a, b) ==
    CASE option = "date_asc" -> a.dateAdded - b.dateAdded
      [] option = "date_desc" -> b.dateAdded - a.dateAdded
      [] option = "title_asc" -> localeCompare(getTitle(a), getTitle(b))
      [] option = "title_desc" -> localeCompare(getTitle(b), getTitle(a))
      [] option = "rating_desc" -> minus(getRating(b), getRating(a))
      [] option = "rating_asc" -> minus(getRating(a), getRating(b))
      [] option = "status_asc" -> localeCompare(getStatus(a), getStatus(b))
      [] OTHER -> 0

RECURSIVE insertSorted(_, _, _)
\* x put before the first element it is strictly smaller than
insertSorted(x, sorted, option) ==
    IF sorted = <<>> THEN <<x>>
    ELSE IF compare(option, x, Head(sorted)) < 0 THEN <<x>> \o sorted
    ELSE <<Head(sorted)>> \o insertSorted(x, Tail(sorted), option)

RECURSIVE sort(_, _)
\* Array.prototype.sort with compare: a stable sort
sort(its, option) ==
    IF its = <<>> THEN <<>>
    ELSE insertSorted(its[Len(its)], sort(SubSeq(its, 1, Len(its) - 1), option), option)

\* filteredItems before the sort, for given filter options
narrowedItems(options) ==
    statusFilter(ratingFilter(searchFilter(viewFilter(appState.items, activeView),
                                           searchQuery), options), options)

\* filteredItems
filteredItems == sort(narrowedItems(filterOptions), sortOption)

RECURSIVE sortStrings(_)
\* Array.from(set).sort(): ascending by code units
sortStrings(S) ==
    IF S = {} THEN <<>>
    ELSE LET least == CHOOSE x \in S : \A y \in S \ {x} : codeUnitLess(x, y)
         IN <<least>> \o sortStrings(S \ {least})

\* the status texts availableStatuses collects from a list of items
statusesOf(its) ==
    { getStatus(i) : i \in { x \in Range(its) :
        /\ fieldOfType(collectionOf(x), "status") # NullField
        /\ ~falsy(valueOf(x, fieldOfType(collectionOf(x), "status").id)) } }

\* availableStatuses
availableStatuses == sortStrings(statusesOf(filteredItems))

\* hasActiveFilters
hasActiveFilters == filterOptions.onlyHasRating \/ Len(filterOptions.statusValues) > 0

\* currentCollection || appState.collections[0]; NullCollection when undefined
modalCollection ==
    IF HasCollection(appState.collections, activeView)
    THEN FindCollection(appState.collections, activeView)
    ELSE IF Len(appState.collections) > 0 THEN appState.collections[1]
    ELSE NullCollection

\* The cards rendered in the grid: filteredItems whose collection resolves
visibleCards ==
    { it \in Range(filteredItems) : HasCollection(appState.collections, it.collectionId) }

----------------------------------------------------------------------------
(* Ids and user input *)

\* Math.random().toString(36).substr(2, 9): an id never handed out before
newItemId(n) == "n" \o ToString(n)
newCollectionId(n) == "c" \o ToString(n)

\* new Date().toISOString() at the n-th creation: later creations get later instants
now(n) == n

\* Names in the name box that handleSave refuses
NameInputs == { <<>>, <<WS>> }

\* The collection dialog's form state as synced by its useEffect on opening
initialForm(collection) ==
    IF collection # NullCollection
    THEN [name |-> collection.name, icon |-> collection.icon, color |-> collection.color,
          description |-> collection.description, fields |-> collection.fields]
    ELSE [name |-> <<>>, icon |-> "Folder", color |-> "stone", description |-> "",
          fields |-> << FieldDefinition("title", Chars_Title, "text", <<>>) >>]

\* AVAILABLE_TYPES.find(t => t.type === type)?.label
Chars_ShortText == <<"S", "h", "o", "r", "t", " ", "T", "e", "x", "t">>
Chars_StarRating == <<"S", "t", "a", "r", " ", "R", "a", "t", "i", "n", "g">>
Chars_StatusSelect ==
    <<"S", "t", "a", "t", "u", "s", " ", "(", "S", "e", "l", "e", "c", "t", ")">>
label(type) ==
    CASE type = "text" -> Chars_ShortText
      [] type = "rating" -> Chars_StarRating
      [] type = "status" -> Chars_StatusSelect

\* addField's defaults[type]: the options of a new status field; none (modelled
\* as the empty list) for the other types
Chars_ToDo == <<"T", "o", " ", "D", "o">>
Chars_InProgress == <<"I", "n", " ", "P", "r", "o", "g", "r", "e", "s", "s">>
Chars_Done == <<"D", "o", "n", "e">>
defaults(type) ==
    IF type = "status" THEN <<Chars_ToDo, Chars_InProgress, Chars_Done>> ELSE <<>>

\* addField(type): setFields(prev => [...prev, newField]), newField under an id
\* never handed out before
addField(prev, type, n) ==
    Append(prev, FieldDefinition("r" \o ToString(n), label(type), type, defaults(type)))

\* updateFieldName
updateFieldName(prev, id, newName) ==
    [k \in 1..Len(prev) |->
        IF prev[k].id = id THEN [prev[k] EXCEPT !.name = newName] ELSE prev[k]]

\* updateFieldOptions
updateFieldOptions(prev, id, opts) ==
    [k \in 1..Len(prev) |->
        IF prev[k].id = id THEN [prev[k] EXCEPT !.options = opts] ELSE prev[k]]

\* removeField
removeField(prev, id) ==
    IF id = "title" THEN prev
    ELSE Filter(prev, { f \in Range(prev) : f.id # id })

\* moveField; idx and newIdx count from 0 as in the code
moveField(prev, id, direction) ==
    IF ~\E k \in 1..Len(prev) : prev[k].id = id THEN prev
    ELSE LET idx == (CHOOSE k \in 1..Len(prev) :
                        /\ prev[k].id = id
                        /\ \A j \in 1..(k - 1) : prev[j].id # id) - 1
             newIdx == IF direction = "up" THEN idx - 1 ELSE idx + 1
         IN IF newIdx < 1 \/ newIdx >= Len(prev) THEN prev
            ELSE [prev EXCEPT ![idx + 1] = prev[newIdx + 1],
                              ![newIdx + 1] = prev[idx + 1]]

\* Form states the user can reach before pressing the save button: nothing
\* touched; the name box emptied or filled with blanks; for a new collection a
\* name typed and a rating field added; for an existing one the name retyped
\* (with a leading blank), icon, colour and description changed and every
\* removable field removed (removeField on each id other than 'title')
CollectionForms(collection, n) ==
    LET f0 == initialForm(collection)
    IN {f0}
       \cup { [f0 EXCEPT !.name = nm] : nm \in NameInputs }
       \cup IF collection = NullCollection
            THEN { [f0 EXCEPT !.name = <<"Manga">>, !.fields = addField(f0.fields, "rating", n)] }
            ELSE { [f0 EXCEPT !.name = <<WS, "Anime">>, !.icon = "Heart", !.color = "rose",
                              !.description = "notes",
                              !.fields = Filter(@, { f \in Range(@) : f.id = "title" })] }

\* The value the user enters for a field in the item panel
inputValue(field) == IF field.type = "rating" THEN Num(3) ELSE Str(<<"x">>)

\* Form states of the item panel the user can reach before pressing the save
\* button: for a new item every field of the panel's collection filled in
\* (handleFieldChange: { ...prev, [fieldId]: value }); for an existing item the
\* synced values left as they are
ItemFieldValues(item, collection) ==
    IF item # NullItem THEN { item.fieldValues }
    ELSE { [id \in { f.id : f \in Range(collection.fields) } |->
               inputValue(CHOOSE f \in Range(collection.fields) : f.id = id)] }

----------------------------------------------------------------------------
(* ItemModal.tsx and CollectionModal.tsx: what handleSave hands to onSave *)

\* newItem stamped on every save: dateAdded: new Date().toISOString()
newItem_stampsEverySave(item, collection, isFavorite, fieldValues, n) ==
    Item(IF item # NullItem THEN item.id ELSE newItemId(n),
         collection.id,
         now(n),
         isFavorite,
         fieldValues)

\* ItemModal.handleSave: newItem
newItem(item, collection, isFavorite, fieldValues, n) ==
    Item(IF item # NullItem THEN item.id ELSE newItemId(n),
         collection.id,
         IF item # NullItem THEN item.dateAdded ELSE now(n),
         isFavorite,
         fieldValues)

\* the name check without trim(): if (!name) return;
nameRejected_untrimmed(name) == name = <<>>

\* CollectionModal.handleSave: if (!name.trim()) return;
nameRejected(name) == trim(name) = <<>>

\* savedCollection built like a new collection, with itemIds: []
savedCollection_resetsItemIds(collection, form) ==
    [collection EXCEPT !.name = form.name, !.icon = form.icon, !.color = form.color,
                       !.description = form.description, !.fields = form.fields,
                       !.itemIds = <<>>]

\* CollectionModal.handleSave: savedCollection = { ...collection, name, icon, ... }
savedCollection(collection, form) ==
    [collection EXCEPT !.name = form.name, !.icon = form.icon, !.color = form.color,
                       !.description = form.description, !.fields = form.fields]

\* CollectionModal.handleSave: newCollection, with itemIds: []
newCollection(form, n) ==
    Collection(newCollectionId(n), form.name, form.icon, form.color, form.description,
               form.fields, <<>>)

----------------------------------------------------------------------------
(* JSON.stringify / JSON.parse on the AppState shape. A stored text is      *)
(* modelled by the document it denotes, every value under its JSON type.    *)
(* An object is the function from its keys to its members; the items       *)
(* object, whose key order Object.values reads, is the sequence of its     *)
(* <<key, member>> pairs. Text that is not JSON is the document Malformed. *)

JObject(members) == [j |-> "object", v |-> members]
JArray(elements) == [j |-> "array", v |-> elements]
JString(s) == [j |-> "string", v |-> s]
JNumber(n) == [j |-> "number", v |-> n]
JBoolean(b) == [j |-> "boolean", v |-> b]

\* a stored text JSON.parse rejects with a SyntaxError
Malformed == [j |-> "malformed", v |-> <<>>]

\* localStorage.getItem(key) === null: nothing stored under the key
NoStickyValue == [j |-> "absent", v |-> <<>>]

stringifyValue(val) == IF val.t = "number" THEN JNumber(val.n) ELSE JString(val.s)
parseValue(doc) == IF doc.j = "number" THEN Num(doc.v) ELSE Str(doc.v)

stringifyField(f) ==
    JObject([id |-> JString(f.id), name |-> JString(f.name), type |-> JString(f.type),
             options |-> JArray([k \in 1..Len(f.options) |-> JString(f.options[k])])])

parseField(doc) ==
    FieldDefinition(doc.v.id.v, doc.v.name.v, doc.v.type.v,
                    [k \in 1..Len(doc.v.options.v) |-> doc.v.options.v[k].v])

stringifyCollection(c) ==
    JObject([id |-> JString(c.id), name |-> JString(c.name), icon |-> JString(c.icon),
             color |-> JString(c.color), description |-> JString(c.description),
             fields |-> JArray([k \in 1..Len(c.fields) |-> stringifyField(c.fields[k])]),
             itemIds |-> JArray([k \in 1..Len(c.itemIds) |-> JString(c.itemIds[k])])])

parseCollection(doc) ==
    Collection(doc.v.id.v, doc.v.name.v, doc.v.icon.v, doc.v.color.v, doc.v.description.v,
               [k \in 1..Len(doc.v.fields.v) |-> parseField(doc.v.fields.v[k])],
               [k \in 1..Len(doc.v.itemIds.v) |-> doc.v.itemIds.v[k].v])

stringifyItem(it) ==
    JObject([id |-> JString(it.id), collectionId |-> JString(it.collectionId),
             dateAdded |-> JString(it.dateAdded), isFavorite |-> JBoolean(it.isFavorite),
             fieldValues |->
                JObject([key \in DOMAIN it.fieldValues |-> stringifyValue(it.fieldValues[key])])])

parseItem(doc) ==
    Item(doc.v.id.v, doc.v.collectionId.v, doc.v.dateAdded.v, doc.v.isFavorite.v,
         [key \in DOMAIN doc.v.fieldValues.v |-> parseValue(doc.v.fieldValues.v[key])])

\* JSON.stringify(value) for value: AppState
JSON_stringify(value) ==
    JObject([darkMode |-> JBoolean(value.darkMode),
             sidebarOpen |-> JBoolean(value.sidebarOpen),
             collections |->
                JArray([k \in 1..Len(value.collections) |->
                            stringifyCollection(value.collections[k])]),
             items |->
                JObject([k \in 1..Len(value.items) |->
                            <<value.items[k].id, stringifyItem(value.items[k])>>])])

\* JSON.parse(text) throws a SyntaxError
SyntaxError(text) == text.j = "malformed"

\* JSON.parse(text) for a text that holds an AppState document
JSON_parse(text) ==
    [darkMode |-> text.v.darkMode.v,
     sidebarOpen |-> text.v.sidebarOpen.v,
     collections |->
        [k \in 1..Len(text.v.collections.v) |-> parseCollection(text.v.collections.v[k])],
     items |->
        [k \in 1..Len(text.v.items.v) |-> parseItem(text.v.items.v[k][2])]]

\* the value of appState when the initialiser threw: the component never
\* mounted and no state exists
Unmounted ==
    [darkMode |-> FALSE, sidebarOpen |-> FALSE, collections |-> <<>>, items |-> <<>>]

\* the initialiser that never reads what is stored
useStickyState_ignoresStorage(defaultValue, stickyValue) == defaultValue

\* useStickyState(defaultValue, key), initialiser: stickyValue !== null ?
\* JSON.parse(stickyValue) : defaultValue
useStickyState(defaultValue, stickyValue) ==
    IF stickyValue # NoStickyValue THEN JSON_parse(stickyValue) ELSE defaultValue

----------------------------------------------------------------------------
(* Which layer receives pointer events: the alert dialog (z-60) covers the *)
(* collection dialog, which covers the item panel, which covers the page   *)

alertOpen == alertDialog # NullAlert
\* nothing is rendered once an error escaped the render
mounted == thrown = "none"
pageEnabled == mounted /\ ~alertOpen /\ ~collectionModalOpen /\ ~itemModalOpen
\* <ItemModal> is rendered only when modalCollection is defined
itemPanelEnabled ==
    /\ mounted /\ ~alertOpen /\ ~collectionModalOpen /\ itemModalOpen
    /\ modalCollection # NullCollection
collectionDialogEnabled == mounted /\ ~alertOpen /\ collectionModalOpen

\* lastOp for a call of mutation handler op with argument id
Op(op, id, existed, removed) ==
    [op |-> op, id |-> id, existed |-> existed, removed |-> removed]
\* lastOp after an event that calls no mutation handler
NoOp == Op("none", "", FALSE, 0)

----------------------------------------------------------------------------
(* Initial state: useState initialisers, SEED_DATA when storage is empty *)

\* What the useState initialisers of App yield with stickyValue stored under
\* the key; JSON.parse may throw out of the first of them
initialState(stickyValue) ==
    [thrown |-> IF SyntaxError(stickyValue) THEN "SyntaxError" ELSE "none",
     appState |-> IF SyntaxError(stickyValue) THEN Unmounted
                  ELSE useStickyState(SEED_DATA, stickyValue),
     activeView |-> "all",
     searchQuery |-> <<>>,
     sortOption |-> "date_desc",
     filterOptions |-> [onlyHasRating |-> FALSE, statusValues |-> <<>>],
     itemModalOpen |-> FALSE,
     selectedItem |-> NullItem,
     collectionModalOpen |-> FALSE,
     editingCollection |-> NullCollection,
     alertDialog |-> NullAlert]

\* useLinkPreview: data === null, and no timeout pending
NoPreview == [null |-> TRUE, title |-> <<>>, image |-> <<>>, domain |-> <<>>]
NoTimer == <<>>

\* The components' own state after construction: the useState initialisers
\* of CollectionModal (fields), TagInput (draft) and useLinkPreview (data,
\* loading), an item form with no tags, no url and no image
initialComponents ==
    [fields |-> initialForm(NullCollection).fields, fieldsAdded |-> 0,
     tags |-> <<>>, draft |-> <<>>,
     watchedUrl |-> <<>>, previewData |-> NoPreview, previewLoading |-> FALSE,
     timer |-> NoTimer, inFlight |-> {}, fetchesStarted |-> 0, imageValue |-> <<>>]

\* The state after App is constructed with stickyValue stored under the key:
\* the useState initialisers, then (if the render succeeded) the effect of
\* useStickyState, which writes the value back
Mount(stickyValue) ==
    /\ LET s == initialState(stickyValue)
       IN /\ thrown = s.thrown
          /\ appState = s.appState
          /\ storage = IF s.thrown = "none" THEN JSON_stringify(s.appState) ELSE stickyValue
          /\ activeView = s.activeView
          /\ searchQuery = s.searchQuery
          /\ sortOption = s.sortOption
          /\ filterOptions = s.filterOptions
          /\ itemModalOpen = s.itemModalOpen
          /\ selectedItem = s.selectedItem
          /\ collectionModalOpen = s.collectionModalOpen
          /\ editingCollection = s.editingCollection
          /\ alertDialog = s.alertDialog
    /\ lastOp = NoOp
    /\ fields = initialComponents.fields
    /\ fieldsAdded = initialComponents.fieldsAdded
    /\ tags = initialComponents.tags
    /\ draft = initialComponents.draft
    /\ watchedUrl = initialComponents.watchedUrl
    /\ previewData = initialComponents.previewData
    /\ previewLoading = initialComponents.previewLoading
    /\ timer = initialComponents.timer
    /\ inFlight = initialComponents.inFlight
    /\ fetchesStarted = initialComponents.fetchesStarted
    /\ imageValue = initialComponents.imageValue

\* First visit: nothing is stored under the key
Init ==
    /\ Mount(NoStickyValue)
    /\ created = 0
    /\ createdCols = 0

----------------------------------------------------------------------------
(* Page and sidebar events *)

\* Sidebar onSelectView = setActiveView
SelectView ==
    /\ pageEnabled
    /\ \E v \in {"all", "favorites"} \cup { c.id : c \in Range(appState.collections) } :
        activeView' = v
    /\ lastOp' = NoOp
    /\ UNCHANGED <<appState, itemModalOpen, selectedItem, collectionModalOpen,
                   editingCollection, alertDialog, created, createdCols>>
    /\ UNCHANGED <<searchQuery, sortOption, filterOptions, storage, thrown>>
    /\ UNCHANGED componentVars

\* openNewItemModal (floating button, rendered when a collection exists)
openNewItemModal ==
    /\ pageEnabled
    /\ Len(appState.collections) > 0
    /\ activeView' =
        IF activeView = "all" \/ activeView = "favorites"
        THEN appState.collections[1].id
        ELSE activeView
    /\ selectedItem' = NullItem
    /\ itemModalOpen' = TRUE
    /\ lastOp' = NoOp
    /\ UNCHANGED <<appState, collectionModalOpen, editingCollection, alertDialog,
                   created, createdCols>>
    /\ UNCHANGED <<searchQuery, sortOption, filterOptions, storage, thrown>>
    /\ UNCHANGED componentVars

\* ItemCard onClick: setSelectedItem(item); setItemModalOpen(true)
ClickItemCard ==
    /\ pageEnabled
    /\ \E it \in visibleCards : selectedItem' = it
    /\ itemModalOpen' = TRUE
    /\ lastOp' = NoOp
    /\ UNCHANGED <<appState, activeView, collectionModalOpen, editingCollection,
                   alertDialog, created, createdCols>>
    /\ UNCHANGED <<searchQuery, sortOption, filterOptions, storage, thrown>>
    /\ UNCHANGED componentVars

\* toggleDarkMode (header button)
ToggleDarkMode ==
    /\ pageEnabled
    /\ appState' = toggleDarkMode(appState)
    /\ lastOp' = Op("toggleDarkMode", "", FALSE, 0)
    /\ UNCHANGED <<activeView, itemModalOpen, selectedItem, collectionModalOpen,
                   editingCollection, alertDialog, created, createdCols>>
    /\ storage' = JSON_stringify(appState')
    /\ UNCHANGED <<searchQuery, sortOption, filterOptions, thrown>>
    /\ UNCHANGED componentVars

\* handleOpenCollectionModal (sidebar "New collection")
handleOpenCollectionModal ==
    /\ pageEnabled
    /\ editingCollection' = NullCollection
    /\ collectionModalOpen' = TRUE
    /\ lastOp' = NoOp
    /\ UNCHANGED <<appState, activeView, itemModalOpen, selectedItem, alertDialog,
                   created, createdCols>>
    /\ UNCHANGED <<searchQuery, sortOption, filterOptions, storage, thrown>>
    /\ UNCHANGED componentVars

\* handleEditCollection (pencil button of a sidebar collection row)
handleEditCollection ==
    /\ pageEnabled
    /\ \E col \in Range(appState.collections) : editingCollection' = col
    /\ collectionModalOpen' = TRUE
    /\ lastOp' = NoOp
    /\ UNCHANGED <<appState, activeView, itemModalOpen, selectedItem, alertDialog,
                   created, createdCols>>
    /\ UNCHANGED <<searchQuery, sortOption, filterOptions, storage, thrown>>
    /\ UNCHANGED componentVars

\* confirmDeleteCollection (trash button of a sidebar collection row)
confirmDeleteCollection ==
    /\ pageEnabled
    /\ \E col \in Range(appState.collections) :
        alertDialog' = [kind |-> "collection", id |-> col.id]
    /\ lastOp' = NoOp
    /\ UNCHANGED <<appState, activeView, itemModalOpen, selectedItem, collectionModalOpen,
                   editingCollection, created, createdCols>>
    /\ UNCHANGED <<searchQuery, sortOption, filterOptions, storage, thrown>>
    /\ UNCHANGED componentVars

----------------------------------------------------------------------------
(* ItemModal.tsx: the item panel *)

\* ItemModal.handleSave: onSave(newItem); onClose()
ItemModalHandleSave ==
    /\ itemPanelEnabled
    /\ selectedItem = NullItem => created + createdCols < MaxCreated
    /\ \E isFavorite \in BOOLEAN,
          fieldValues \in ItemFieldValues(selectedItem, modalCollection) :
        LET it == newItem(selectedItem, modalCollection, isFavorite, fieldValues,
                          created + 1)
        IN /\ appState' = handleSaveItem(appState, it)
           /\ lastOp' = Op("saveItem", it.id, HasItem(appState.items, it.id), 0)
    /\ created' = IF selectedItem = NullItem THEN created + 1 ELSE created
    /\ itemModalOpen' = FALSE
    /\ selectedItem' = NullItem
    /\ UNCHANGED <<activeView, collectionModalOpen, editingCollection, alertDialog,
                   createdCols>>
    /\ storage' = JSON_stringify(appState')
    /\ UNCHANGED <<searchQuery, sortOption, filterOptions, thrown>>
    /\ UNCHANGED componentVars

\* the panel opened by openNewItemModal is saved
ItemModalSaveNew == selectedItem = NullItem /\ ItemModalHandleSave

\* the panel opened on a card is saved
ItemModalSaveEdit == selectedItem # NullItem /\ ItemModalHandleSave

\* onClose: backdrop, close button, Cancel, Escape
ItemModalClose ==
    /\ itemPanelEnabled
    /\ itemModalOpen' = FALSE
    /\ selectedItem' = NullItem
    /\ lastOp' = NoOp
    /\ UNCHANGED <<appState, activeView, collectionModalOpen, editingCollection,
                   alertDialog, created, createdCols>>
    /\ UNCHANGED <<searchQuery, sortOption, filterOptions, storage, thrown>>
    /\ UNCHANGED componentVars

\* a trash button that deletes at once, without the confirmation dialog
confirmDeleteItem_deletesAtOnce ==
    /\ itemPanelEnabled
    /\ selectedItem # NullItem
    /\ appState' = handleDeleteItem(appState, selectedItem.id)
    /\ itemModalOpen' = FALSE
    /\ selectedItem' = NullItem
    /\ lastOp' = Op("deleteItem", selectedItem.id, HasItem(appState.items, selectedItem.id),
                    IF HasItem(appState.items, selectedItem.id) THEN 1 ELSE 0)
    /\ storage' = JSON_stringify(appState')
    /\ UNCHANGED <<activeView, collectionModalOpen, editingCollection, alertDialog,
                   created, createdCols>>
    /\ UNCHANGED <<searchQuery, sortOption, filterOptions, thrown>>
    /\ UNCHANGED componentVars

\* confirmDeleteItem, from the panel's trash button (rendered when item is set)
confirmDeleteItem ==
    /\ itemPanelEnabled
    /\ selectedItem # NullItem
    /\ alertDialog' = [kind |-> "item", id |-> selectedItem.id]
    /\ lastOp' = NoOp
    /\ UNCHANGED <<appState, activeView, itemModalOpen, selectedItem, collectionModalOpen,
                   editingCollection, created, createdCols>>
    /\ UNCHANGED <<searchQuery, sortOption, filterOptions, storage, thrown>>
    /\ UNCHANGED componentVars

----------------------------------------------------------------------------
(* CollectionModal.tsx: the collection dialog *)

\* CollectionModal.handleSave with the form state `form`
CollectionModalHandleSave(form) ==
    /\ collectionDialogEnabled
    /\ IF nameRejected(form.name)
       THEN /\ lastOp' = NoOp
            /\ UNCHANGED <<appState, activeView, collectionModalOpen, editingCollection,
                           createdCols, storage>>
       ELSE IF editingCollection # NullCollection      \* isEditing && collection
       THEN LET col == savedCollection(editingCollection, form)
            IN /\ appState' = handleEditCollectionSave(appState, col)
               /\ lastOp' = Op("editCollection", col.id,
                               HasCollection(appState.collections, col.id), 0)
               /\ editingCollection' = NullCollection
               /\ collectionModalOpen' = FALSE
               /\ storage' = JSON_stringify(appState')
               /\ UNCHANGED <<activeView, createdCols>>
       ELSE /\ created + createdCols < MaxCreated
            /\ LET col == newCollection(form, createdCols + 1)
               IN /\ appState' = handleCreateCollection(appState, col)
                  /\ activeView' = col.id
                  /\ lastOp' = Op("createCollection", col.id, FALSE, 0)
            /\ createdCols' = createdCols + 1
            /\ editingCollection' = NullCollection
            /\ collectionModalOpen' = FALSE
            /\ storage' = JSON_stringify(appState')
    /\ UNCHANGED <<itemModalOpen, selectedItem, alertDialog, created>>
    /\ UNCHANGED <<searchQuery, sortOption, filterOptions, thrown>>
    /\ UNCHANGED componentVars

\* the dialog opened by handleOpenCollectionModal is saved
CollectionModalSaveNew ==
    /\ editingCollection = NullCollection
    /\ \E form \in CollectionForms(editingCollection, createdCols + 1) :
        CollectionModalHandleSave(form)

\* the dialog opened by handleEditCollection is saved
CollectionModalSaveEdit ==
    /\ editingCollection # NullCollection
    /\ \E form \in CollectionForms(editingCollection, createdCols + 1) :
        CollectionModalHandleSave(form)

\* onClose: setCollectionModalOpen(false); setEditingCollection(null)
CollectionModalClose ==
    /\ collectionDialogEnabled
    /\ collectionModalOpen' = FALSE
    /\ editingCollection' = NullCollection
    /\ lastOp' = NoOp
    /\ UNCHANGED <<appState, activeView, itemModalOpen, selectedItem, alertDialog,
                   created, createdCols>>
    /\ UNCHANGED <<searchQuery, sortOption, filterOptions, storage, thrown>>
    /\ UNCHANGED componentVars

----------------------------------------------------------------------------
(* AlertDialog: the onConfirm closures built by confirmDelete*, and onCancel *)

\* number of items a call handleDeleteCollection(id) removes
removedBy(id) == Len(appState.items) - Len(handleDeleteCollection(appState, id).items)

\* onConfirm of confirmDeleteCollection: handleDeleteCollection(col.id); setAlertDialog(null)
AlertConfirmCollection ==
    /\ alertDialog.kind = "collection"
    /\ appState' = handleDeleteCollection(appState, alertDialog.id)
    /\ activeView' = deleteCollectionView(activeView, alertDialog.id)
    /\ alertDialog' = NullAlert
    /\ lastOp' = Op("deleteCollection", alertDialog.id,
                    HasCollection(appState.collections, alertDialog.id),
                    removedBy(alertDialog.id))
    /\ UNCHANGED <<itemModalOpen, selectedItem, collectionModalOpen, editingCollection,
                   created, createdCols>>
    /\ storage' = JSON_stringify(appState')
    /\ UNCHANGED <<searchQuery, sortOption, filterOptions, thrown>>
    /\ UNCHANGED componentVars

\* onConfirm of confirmDeleteItem: handleDeleteItem(itemId); setItemModalOpen(false);
\* setAlertDialog(null)
AlertConfirmItem ==
    /\ alertDialog.kind = "item"
    /\ appState' = handleDeleteItem(appState, alertDialog.id)
    /\ itemModalOpen' = FALSE
    /\ selectedItem' = NullItem
    /\ alertDialog' = NullAlert
    /\ lastOp' = Op("deleteItem", alertDialog.id, HasItem(appState.items, alertDialog.id),
                    IF HasItem(appState.items, alertDialog.id) THEN 1 ELSE 0)
    /\ UNCHANGED <<activeView, collectionModalOpen, editingCollection, created, createdCols>>
    /\ storage' = IF HasItem(appState.items, alertDialog.id)
                  THEN JSON_stringify(appState') ELSE storage
    /\ UNCHANGED <<searchQuery, sortOption, filterOptions, thrown>>
    /\ UNCHANGED componentVars

\* onCancel: setAlertDialog(null)
AlertCancel ==
    /\ alertOpen
    /\ alertDialog' = NullAlert
    /\ lastOp' = NoOp
    /\ UNCHANGED <<appState, activeView, itemModalOpen, selectedItem, collectionModalOpen,
                   editingCollection, created, createdCols>>
    /\ UNCHANGED <<searchQuery, sortOption, filterOptions, storage, thrown>>
    /\ UNCHANGED componentVars

----------------------------------------------------------------------------
(* Header and toolbar: search box, sort select, filter chips *)

\* Texts typed into the search box: nothing, a word in lower case, part of it
\* in upper case, a digit, and a text no value contains
SearchInputs ==
    { <<>>, <<"n", "o", "l", "a", "n">>, <<"N", "O", "L">>, <<"5">>, <<"z", "z">> }

SortOptions ==
    { "date_desc", "date_asc", "title_asc", "title_desc", "rating_desc", "rating_asc",
      "status_asc" }

\* onChange of the search box, and its clear button: setSearchQuery
setSearchQuery ==
    /\ pageEnabled
    /\ \E text \in SearchInputs : searchQuery' = text
    /\ lastOp' = NoOp
    /\ UNCHANGED <<appState, activeView, itemModalOpen, selectedItem, collectionModalOpen,
                   editingCollection, alertDialog, created, createdCols>>
    /\ UNCHANGED <<sortOption, filterOptions, storage, thrown>>
    /\ UNCHANGED componentVars

\* onChange of the sort select: setSortOption
setSortOption ==
    /\ pageEnabled
    /\ \E option \in SortOptions : sortOption' = option
    /\ lastOp' = NoOp
    /\ UNCHANGED <<appState, activeView, itemModalOpen, selectedItem, collectionModalOpen,
                   editingCollection, alertDialog, created, createdCols>>
    /\ UNCHANGED <<searchQuery, filterOptions, storage, thrown>>
    /\ UNCHANGED componentVars

\* the "Rated" chip: setFilterOptions(prev => ({ ...prev, onlyHasRating: !prev.onlyHasRating }))
ToggleOnlyHasRating ==
    /\ pageEnabled
    /\ filterOptions' = [filterOptions EXCEPT !.onlyHasRating = ~@]
    /\ lastOp' = NoOp
    /\ UNCHANGED <<appState, activeView, itemModalOpen, selectedItem, collectionModalOpen,
                   editingCollection, alertDialog, created, createdCols>>
    /\ UNCHANGED <<searchQuery, sortOption, storage, thrown>>
    /\ UNCHANGED componentVars

\* toggleStatusFilter(status), from one of the chips of availableStatuses
toggleStatusFilter ==
    /\ pageEnabled
    /\ \E status \in Range(availableStatuses) :
        filterOptions' =
            [filterOptions EXCEPT !.statusValues =
                IF status \in Range(@) THEN Filter(@, Range(@) \ {status})
                ELSE Append(@, status)]
    /\ lastOp' = NoOp
    /\ UNCHANGED <<appState, activeView, itemModalOpen, selectedItem, collectionModalOpen,
                   editingCollection, alertDialog, created, createdCols>>
    /\ UNCHANGED <<searchQuery, sortOption, storage, thrown>>
    /\ UNCHANGED componentVars

\* the "Clear" chip, rendered when hasActiveFilters
ClearFilters ==
    /\ pageEnabled
    /\ hasActiveFilters
    /\ filterOptions' = [onlyHasRating |-> FALSE, statusValues |-> <<>>]
    /\ lastOp' = NoOp
    /\ UNCHANGED <<appState, activeView, itemModalOpen, selectedItem, collectionModalOpen,
                   editingCollection, alertDialog, created, createdCols>>
    /\ UNCHANGED <<searchQuery, sortOption, storage, thrown>>
    /\ UNCHANGED componentVars

----------------------------------------------------------------------------
(* The application, driven through its user interface *)

Next ==
    \/ SelectView
    \/ openNewItemModal
    \/ ClickItemCard
    \/ ToggleDarkMode
    \/ handleOpenCollectionModal
    \/ handleEditCollection
    \/ confirmDeleteCollection
    \/ ItemModalSaveNew
    \/ ItemModalSaveEdit
    \/ ItemModalClose
    \/ confirmDeleteItem
    \/ CollectionModalSaveNew
    \/ CollectionModalSaveEdit
    \/ CollectionModalClose
    \/ AlertConfirmCollection
    \/ AlertConfirmItem
    \/ AlertCancel

Spec == Init /\ [][Next]_vars

\* The same application when the user only creates and deletes: no existing
\* item is saved again and no existing collection is edited
NextCreateDelete ==
    \/ SelectView
    \/ openNewItemModal
    \/ ClickItemCard
    \/ ToggleDarkMode
    \/ handleOpenCollectionModal
    \/ confirmDeleteCollection
    \/ ItemModalSaveNew
    \/ ItemModalClose
    \/ confirmDeleteItem
    \/ CollectionModalSaveNew
    \/ CollectionModalClose
    \/ AlertConfirmCollection
    \/ AlertConfirmItem
    \/ AlertCancel

SpecCreateDelete == Init /\ [][NextCreateDelete]_vars

----------------------------------------------------------------------------
(* The mutation handlers called directly, in any order, with the payloads  *)
(* the dialogs build and with any id for the delete handlers (present,     *)
(* already deleted, or never handed out). No dialog is open.               *)

ItemIdPool == { newItemId(n) : n \in 1..MaxCreated }
CollectionIdPool == { newCollectionId(n) : n \in 1..MaxCreated }

CallCreateCollection ==
    /\ mounted
    /\ created + createdCols < MaxCreated
    /\ \E form \in CollectionForms(NullCollection, createdCols + 1) :
        /\ ~nameRejected(form.name)
        /\ LET col == newCollection(form, createdCols + 1)
           IN /\ appState' = handleCreateCollection(appState, col)
              /\ activeView' = col.id
              /\ lastOp' = Op("createCollection", col.id, FALSE, 0)
    /\ createdCols' = createdCols + 1
    /\ UNCHANGED <<itemModalOpen, selectedItem, collectionModalOpen, editingCollection,
                   alertDialog, created>>
    /\ storage' = JSON_stringify(appState')
    /\ UNCHANGED <<searchQuery, sortOption, filterOptions, thrown>>
    /\ UNCHANGED componentVars

CallEditCollectionSave ==
    /\ mounted
    /\ \E collection \in Range(appState.collections) :
       \E form \in CollectionForms(collection, createdCols + 1) :
        /\ ~nameRejected(form.name)
        /\ LET col == savedCollection(collection, form)
           IN /\ appState' = handleEditCollectionSave(appState, col)
              /\ lastOp' = Op("editCollection", col.id, TRUE, 0)
    /\ UNCHANGED <<activeView, itemModalOpen, selectedItem, collectionModalOpen,
                   editingCollection, alertDialog, created, createdCols>>
    /\ storage' = JSON_stringify(appState')
    /\ UNCHANGED <<searchQuery, sortOption, filterOptions, thrown>>
    /\ UNCHANGED componentVars

CallDeleteCollection ==
    /\ mounted
    /\ \E id \in CollectionIdPool :
        /\ appState' = handleDeleteCollection(appState, id)
        /\ activeView' = deleteCollectionView(activeView, id)
        /\ lastOp' = Op("deleteCollection", id, HasCollection(appState.collections, id),
                        removedBy(id))
    /\ UNCHANGED <<itemModalOpen, selectedItem, collectionModalOpen, editingCollection,
                   alertDialog, created, createdCols>>
    /\ storage' = JSON_stringify(appState')
    /\ UNCHANGED <<searchQuery, sortOption, filterOptions, thrown>>
    /\ UNCHANGED componentVars

CallSaveItem ==
    /\ mounted
    /\ \E item \in Range(appState.items) \cup {NullItem},
          collection \in Range(appState.collections),
          isFavorite \in BOOLEAN :
        /\ item = NullItem => created + createdCols < MaxCreated
        /\ \E fieldValues \in ItemFieldValues(item, collection) :
            LET it == newItem(item, collection, isFavorite, fieldValues, created + 1)
            IN /\ appState' = handleSaveItem(appState, it)
               /\ lastOp' = Op("saveItem", it.id, HasItem(appState.items, it.id), 0)
        /\ created' = IF item = NullItem THEN created + 1 ELSE created
    /\ UNCHANGED <<activeView, itemModalOpen, selectedItem, collectionModalOpen,
                   editingCollection, alertDialog, createdCols>>
    /\ storage' = JSON_stringify(appState')
    /\ UNCHANGED <<searchQuery, sortOption, filterOptions, thrown>>
    /\ UNCHANGED componentVars

CallDeleteItem ==
    /\ mounted
    /\ \E id \in ItemIdPool :
        /\ appState' = handleDeleteItem(appState, id)
        /\ storage' = IF HasItem(appState.items, id) THEN JSON_stringify(appState') ELSE storage
        /\ lastOp' = Op("deleteItem", id, HasItem(appState.items, id),
                        IF HasItem(appState.items, id) THEN 1 ELSE 0)
    /\ UNCHANGED <<activeView, itemModalOpen, selectedItem, collectionModalOpen,
                   editingCollection, alertDialog, created, createdCols>>
    /\ UNCHANGED <<searchQuery, sortOption, filterOptions, thrown>>
    /\ UNCHANGED componentVars

CallToggleDarkMode ==
    /\ mounted
    /\ appState' = toggleDarkMode(appState)
    /\ lastOp' = Op("toggleDarkMode", "", FALSE, 0)
    /\ UNCHANGED <<activeView, itemModalOpen, selectedItem, collectionModalOpen,
                   editingCollection, alertDialog, created, createdCols>>
    /\ storage' = JSON_stringify(appState')
    /\ UNCHANGED <<searchQuery, sortOption, filterOptions, thrown>>
    /\ UNCHANGED componentVars

NextHandlers ==
    \/ CallCreateCollection
    \/ CallEditCollectionSave
    \/ CallDeleteCollection
    \/ CallSaveItem
    \/ CallDeleteItem
    \/ CallToggleDarkMode

SpecHandlers == Init /\ [][NextHandlers]_vars

----------------------------------------------------------------------------
(* Persistence: the handlers called as above, the page reloaded at any     *)
(* time, and the site data cleared by the user. The first load finds       *)
(* nothing under the key, or a text that is not JSON.                      *)

\* The page is reloaded: App is constructed again over what storage holds
Reload ==
    /\ LET s == initialState(storage)
       IN /\ thrown' = s.thrown
          /\ appState' = s.appState
          /\ storage' = IF s.thrown = "none" THEN JSON_stringify(s.appState) ELSE storage
          /\ activeView' = s.activeView
          /\ searchQuery' = s.searchQuery
          /\ sortOption' = s.sortOption
          /\ filterOptions' = s.filterOptions
          /\ itemModalOpen' = s.itemModalOpen
          /\ selectedItem' = s.selectedItem
          /\ collectionModalOpen' = s.collectionModalOpen
          /\ editingCollection' = s.editingCollection
          /\ alertDialog' = s.alertDialog
    /\ lastOp' = Op("reload", "", FALSE, 0)
    /\ UNCHANGED <<created, createdCols>>
    /\ fields' = initialComponents.fields
    /\ fieldsAdded' = initialComponents.fieldsAdded
    /\ tags' = initialComponents.tags
    /\ draft' = initialComponents.draft
    /\ watchedUrl' = initialComponents.watchedUrl
    /\ previewData' = initialComponents.previewData
    /\ previewLoading' = initialComponents.previewLoading
    /\ timer' = initialComponents.timer
    /\ inFlight' = initialComponents.inFlight
    /\ fetchesStarted' = initialComponents.fetchesStarted
    /\ imageValue' = initialComponents.imageValue

\* The user clears the site data: nothing is stored under the key any more
ClearSiteData ==
    /\ storage # NoStickyValue
    /\ storage' = NoStickyValue
    /\ lastOp' = NoOp
    /\ UNCHANGED <<appState, activeView, itemModalOpen, selectedItem, collectionModalOpen,
                   editingCollection, alertDialog, created, createdCols>>
    /\ UNCHANGED <<searchQuery, sortOption, filterOptions, thrown>>
    /\ UNCHANGED componentVars

InitPersist ==
    /\ \E stickyValue \in { NoStickyValue, Malformed } : Mount(stickyValue)
    /\ created = 0
    /\ createdCols = 0

NextPersist ==
    \/ NextHandlers
    \/ Reload
    \/ ClearSiteData

SpecPersist == InitPersist /\ [][NextPersist]_vars

----------------------------------------------------------------------------
(* Browsing a stored shelf: the app opens on a document written by an      *)
(* earlier session, and the user only looks around (views, search, sort,   *)
(* filters)                                                                 *)

Chars_ChrisNolan == <<"C", "h", "r", "i", "s", " ", "N", "o", "l", "a", "n">>
Chars_Song == <<"S", "o", "n", "g">>
Chars_Tenet == <<"T", "e", "n", "e", "t">>
Chars_Lives == <<"L", "i", "v", "e", "s">>
Chars_Dune == <<"D", "u", "n", "e">>
Chars_Design == <<"D", "e", "s", "i", "g", "n">>
Chars_nolan == <<"n", "o", "l", "a", "n">>
Chars_Watched == <<"W", "a", "t", "c", "h", "e", "d">>
Chars_Queued == <<"Q", "u", "e", "u", "e", "d">>
Chars_Read == <<"R", "e", "a", "d">>
Chars_Reading == <<"R", "e", "a", "d", "i", "n", "g">>

\* A shelf in the shape of the sample data of constants.ts: films and books
\* with title, rating and status fields (films also a director), two items
\* each, the two books added at the same instant; and a third collection with
\* a title field only, holding one item
SampleShelf ==
    [darkMode |-> FALSE,
     sidebarOpen |-> TRUE,
     collections |-> <<
        Collection("films", <<"Films">>, "Film", "indigo", "",
            << FieldDefinition("f_title", Chars_Title, "text", <<>>),
               FieldDefinition("f_director", Chars_Director, "text", <<>>),
               FieldDefinition("f_rating", Chars_Rating, "rating", <<>>),
               FieldDefinition("f_status", Chars_Status, "status",
                               <<Chars_Queued, Chars_Watched>>) >>,
            <<"s2", "s1">>),
        Collection("books", <<"Library">>, "BookOpen", "amber", "",
            << FieldDefinition("b_title", Chars_Title, "text", <<>>),
               FieldDefinition("b_rating", Chars_Rating, "rating", <<>>),
               FieldDefinition("b_status", Chars_Status, "status",
                               <<Chars_Reading, Chars_Read>>) >>,
            <<"s4", "s3">>),
        Collection("notes", <<"Notes">>, "Folder", "stone", "",
            << FieldDefinition("title", Chars_Title, "text", <<>>) >>,
            <<"s5">>) >>,
     items |-> <<
        Item("s1", "films", 1, TRUE,
             [id \in {"f_title", "f_director", "f_rating", "f_status"} |->
                CASE id = "f_title" -> Str(Chars_Tenet)
                  [] id = "f_director" -> Str(Chars_ChrisNolan)
                  [] id = "f_rating" -> Num(5)
                  [] id = "f_status" -> Str(Chars_Watched)]),
        Item("s2", "films", 2, FALSE,
             [id \in {"f_title", "f_director", "f_rating", "f_status"} |->
                CASE id = "f_title" -> Str(Chars_Lives)
                  [] id = "f_director" -> Str(Chars_Song)
                  [] id = "f_rating" -> Num(4)
                  [] id = "f_status" -> Str(Chars_Queued)]),
        Item("s3", "books", 3, TRUE,
             [id \in {"b_title", "b_rating", "b_status"} |->
                CASE id = "b_title" -> Str(Chars_Dune)
                  [] id = "b_rating" -> Num(5)
                  [] id = "b_status" -> Str(Chars_Read)]),
        Item("s4", "books", 3, TRUE,
             [id \in {"b_title", "b_rating", "b_status"} |->
                CASE id = "b_title" -> Str(Chars_Design)
                  [] id = "b_rating" -> Num(0)
                  [] id = "b_status" -> Str(Chars_Reading)]),
        Item("s5", "notes", 5, TRUE,
             [id \in {"title"} |-> Str(Chars_nolan)]) >>]

\* The same shelf before the third collection was added
SmallShelf ==
    [SampleShelf EXCEPT
        !.collections = SubSeq(@, 1, 2),
        !.items = SubSeq(@, 1, 4)]

\* The sample shelf as an earlier session left it under the key, with the text
\* "n/a" in place of the number of the first film's rating (JSON.parse hands
\* back whatever the stored document holds; nothing validates a field value)
Chars_na == <<"n", "/", "a">>
TextRatingShelf ==
    [SampleShelf EXCEPT
        !.items[1].fieldValues["f_rating"] = Str(Chars_na)]

StoredShelves == { SampleShelf, SmallShelf, TextRatingShelf }

InitBrowse ==
    /\ \E shelf \in StoredShelves : Mount(JSON_stringify(shelf))
    /\ created = 0
    /\ createdCols = 0

NextBrowse ==
    \/ SelectView
    \/ setSearchQuery
    \/ setSortOption
    \/ ToggleOnlyHasRating
    \/ toggleStatusFilter
    \/ ClearFilters

SpecBrowse == InitBrowse /\ [][NextBrowse]_vars

----------------------------------------------------------------------------
(* The collection dialog's field list, its handlers called in any order and *)
(* with any field id, starting from the field list of a new collection      *)

\* ids the handlers are called with: the title field's and the added fields'
FieldIdPool == {"title"} \cup { "r" \o ToString(n) : n \in 1..MaxFields }
\* names typed into a field's name box
FieldNameInputs == { Chars_title, Chars_Name }
\* field types picked in the 'add field' menu (every type but text is offered)
FieldTypeInputs == { "rating", "status" }
\* option lists the options editor hands to updateFieldOptions
FieldOptionInputs == { <<Chars_Done>> }

CallAddField ==
    /\ fieldsAdded < MaxFields
    /\ \E type \in FieldTypeInputs : fields' = addField(fields, type, fieldsAdded + 1)
    /\ fieldsAdded' = fieldsAdded + 1
    /\ UNCHANGED <<tags, draft, watchedUrl, previewData, previewLoading, timer,
                   inFlight, fetchesStarted, imageValue>>
    /\ UNCHANGED <<appState, activeView, itemModalOpen, selectedItem, collectionModalOpen,
                   editingCollection, alertDialog, created, createdCols, lastOp,
                   searchQuery, sortOption, filterOptions, storage, thrown>>

CallUpdateFieldName ==
    /\ \E id \in FieldIdPool, newName \in FieldNameInputs :
        fields' = updateFieldName(fields, id, newName)
    /\ UNCHANGED <<fieldsAdded, tags, draft, watchedUrl, previewData, previewLoading,
                   timer, inFlight, fetchesStarted, imageValue>>
    /\ UNCHANGED <<appState, activeView, itemModalOpen, selectedItem, collectionModalOpen,
                   editingCollection, alertDialog, created, createdCols, lastOp,
                   searchQuery, sortOption, filterOptions, storage, thrown>>

CallUpdateFieldOptions ==
    /\ \E id \in FieldIdPool, opts \in FieldOptionInputs :
        fields' = updateFieldOptions(fields, id, opts)
    /\ UNCHANGED <<fieldsAdded, tags, draft, watchedUrl, previewData, previewLoading,
                   timer, inFlight, fetchesStarted, imageValue>>
    /\ UNCHANGED <<appState, activeView, itemModalOpen, selectedItem, collectionModalOpen,
                   editingCollection, alertDialog, created, createdCols, lastOp,
                   searchQuery, sortOption, filterOptions, storage, thrown>>

CallRemoveField ==
    /\ \E id \in FieldIdPool : fields' = removeField(fields, id)
    /\ UNCHANGED <<fieldsAdded, tags, draft, watchedUrl, previewData, previewLoading,
                   timer, inFlight, fetchesStarted, imageValue>>
    /\ UNCHANGED <<appState, activeView, itemModalOpen, selectedItem, collectionModalOpen,
                   editingCollection, alertDialog, created, createdCols, lastOp,
                   searchQuery, sortOption, filterOptions, storage, thrown>>

CallMoveField ==
    /\ \E id \in FieldIdPool, direction \in {"up", "down"} :
        fields' = moveField(fields, id, direction)
    /\ UNCHANGED <<fieldsAdded, tags, draft, watchedUrl, previewData, previewLoading,
                   timer, inFlight, fetchesStarted, imageValue>>
    /\ UNCHANGED <<appState, activeView, itemModalOpen, selectedItem, collectionModalOpen,
                   editingCollection, alertDialog, created, createdCols, lastOp,
                   searchQuery, sortOption, filterOptions, storage, thrown>>

NextCollectionForm ==
    \/ CallAddField
    \/ CallUpdateFieldName
    \/ CallUpdateFieldOptions
    \/ CallRemoveField
    \/ CallMoveField

SpecCollectionForm == Init /\ [][NextCollectionForm]_vars

----------------------------------------------------------------------------
(* TagInput: the tag box of a tags field in the item form. value is the    *)
(* field's value handed down by ItemModal, onChange writes it back         *)

RECURSIVE stripLeadingCommas(_)
stripLeadingCommas(s) ==
    IF s # <<>> /\ Head(s) = "," THEN stripLeadingCommas(Tail(s)) ELSE s

RECURSIVE stripTrailingCommas(_)
stripTrailingCommas(s) ==
    IF s # <<>> /\ s[Len(s)] = ","
    THEN stripTrailingCommas(SubSeq(s, 1, Len(s) - 1)) ELSE s

\* s.replace(/^,+|,+$/g, '')
stripCommas(s) == stripTrailingCommas(stripLeadingCommas(s))

RECURSIVE split(_, _)
\* String.prototype.split on a one-character separator
split(s, sep) ==
    IF sep \notin Range(s) THEN <<s>>
    ELSE LET k == CHOOSE i \in 1..Len(s) : s[i] = sep /\ \A j \in 1..(i - 1) : s[j] # sep
         IN <<SubSeq(s, 1, k - 1)>> \o split(SubSeq(s, k + 1, Len(s)), sep)

\* commitDraft: the value handed to onChange, or value itself when onChange
\* is not called
commitDraft(value, text) ==
    LET trimmed == stripCommas(trim(text))
    IN IF trimmed = <<>> THEN value
       ELSE LET parts == split(trimmed, ",")
                newTags == SelectSeq([k \in 1..Len(parts) |-> trim(parts[k])],
                                     LAMBDA t : t # <<>>)
                unique == SelectSeq(newTags, LAMBDA t : t \notin Range(value))
            IN IF Len(unique) > 0 THEN value \o unique ELSE value

\* removeTag: value.filter((_, i) => i !== index), index counting from 0
removeTag(value, index) ==
    [k \in 1..(Len(value) - 1) |-> IF k <= index THEN value[k] ELSE value[k + 1]]

\* texts typed or pasted into the tag box
DraftInputs ==
    { <<"a">>, <<"A">>, <<"b">>,
      <<"a", ",", "a">>,
      <<"a", ",", " ", "b">>,
      <<",">>,
      <<",", " ", ",">>,
      <<" ", "a", " ", ",", ",", "A">> }

\* onChange of the box: setDraft(e.target.value)
setDraft ==
    /\ \E text \in DraftInputs : draft' = text
    /\ UNCHANGED <<fields, fieldsAdded, tags, watchedUrl, previewData, previewLoading,
                   timer, inFlight, fetchesStarted, imageValue>>
    /\ UNCHANGED <<appState, activeView, itemModalOpen, selectedItem, collectionModalOpen,
                   editingCollection, alertDialog, created, createdCols, lastOp,
                   searchQuery, sortOption, filterOptions, storage, thrown>>

\* Enter or ',' pressed in the box, or the box loses focus: commitDraft()
CommitDraft ==
    /\ tags' = commitDraft(tags, draft)
    /\ draft' = <<>>
    /\ UNCHANGED <<fields, fieldsAdded, watchedUrl, previewData, previewLoading,
                   timer, inFlight, fetchesStarted, imageValue>>
    /\ UNCHANGED <<appState, activeView, itemModalOpen, selectedItem, collectionModalOpen,
                   editingCollection, alertDialog, created, createdCols, lastOp,
                   searchQuery, sortOption, filterOptions, storage, thrown>>

\* Backspace pressed in the box: with an empty draft the last tag is dropped
\* (onChange(value.slice(0, -1))); otherwise the box deletes the character
\* before the caret, which is at the end of the draft
KeyBackspace ==
    /\ draft # <<>> \/ Len(tags) > 0
    /\ IF draft = <<>>
       THEN tags' = SubSeq(tags, 1, Len(tags) - 1) /\ draft' = draft
       ELSE draft' = SubSeq(draft, 1, Len(draft) - 1) /\ tags' = tags
    /\ UNCHANGED <<fields, fieldsAdded, watchedUrl, previewData, previewLoading,
                   timer, inFlight, fetchesStarted, imageValue>>
    /\ UNCHANGED <<appState, activeView, itemModalOpen, selectedItem, collectionModalOpen,
                   editingCollection, alertDialog, created, createdCols, lastOp,
                   searchQuery, sortOption, filterOptions, storage, thrown>>

\* the remove button of the tag at position index
RemoveTag ==
    /\ \E index \in 0..(Len(tags) - 1) : tags' = removeTag(tags, index)
    /\ UNCHANGED <<fields, fieldsAdded, draft, watchedUrl, previewData, previewLoading,
                   timer, inFlight, fetchesStarted, imageValue>>
    /\ UNCHANGED <<appState, activeView, itemModalOpen, selectedItem, collectionModalOpen,
                   editingCollection, alertDialog, created, createdCols, lastOp,
                   searchQuery, sortOption, filterOptions, storage, thrown>>

NextTagInput ==
    \/ setDraft
    \/ CommitDraft
    \/ KeyBackspace
    \/ RemoveTag

SpecTagInput == Init /\ [][NextTagInput]_vars

----------------------------------------------------------------------------
(* useLinkPreview and the auto-fill effect of the item form, for a          *)
(* collection with a url field and an image field. A null title or image of *)
(* the preview is the empty text: the code only tests them for truthiness.  *)

Chars_http == <<"h", "t", "t", "p", ":", "/", "/">>
Chars_https == <<"h", "t", "t", "p", "s", ":", "/", "/">>

\* String.prototype.startsWith
startsWith(s, p) == Len(p) <= Len(s) /\ SubSeq(s, 1, Len(p)) = p

\* /^https?:\/\/.+/.test(url)
isValidUrl(url) ==
    \/ startsWith(url, Chars_http) /\ Len(url) > Len(Chars_http)
    \/ startsWith(url, Chars_https) /\ Len(url) > Len(Chars_https)

\* new URL(url).hostname.replace('www.', ''), for urls made of a scheme and a
\* host without 'www.'
hostname(url) ==
    IF startsWith(url, Chars_https) THEN SubSeq(url, Len(Chars_https) + 1, Len(url))
    ELSE SubSeq(url, Len(Chars_http) + 1, Len(url))

\* texts typed into the url field: nothing, a text that is no http(s) url, and
\* the urls of two pages
UrlInputs ==
    { <<>>,
      <<"a">>,
      Chars_http \o <<"a">>,
      Chars_https \o <<"b">> }

\* what the preview service answers for a url: a page with a title and an
\* image, a page with a title only, or no success (or the fetch throws)
FetchOutcomes == { "image", "no image", "failed" }

\* the value handed to setData when the fetch for url settles with outcome
fetched(url, outcome) ==
    CASE outcome = "image" ->
            [null |-> FALSE, title |-> <<"t", ":">> \o hostname(url),
             image |-> <<"i", ":">> \o hostname(url), domain |-> hostname(url)]
      [] outcome = "no image" ->
            [null |-> FALSE, title |-> <<"t", ":">> \o hostname(url),
             image |-> <<>>, domain |-> hostname(url)]
      [] OTHER -> NoPreview

\* the effect on [previewData]: the image field is filled from the preview
\* when it is empty
autoFill(data, currentImage) ==
    IF ~data.null /\ data.image # <<>> /\ currentImage = <<>> THEN data.image
    ELSE currentImage

\* the url field is edited: the effect on [url] is cleaned up (clearTimeout)
\* and runs again for the new url
setWatchedUrl ==
    /\ \E url \in UrlInputs \ {watchedUrl} :
        /\ watchedUrl' = url
        /\ IF ~isValidUrl(url)
           THEN /\ previewData' = NoPreview
                /\ previewLoading' = FALSE
                /\ timer' = NoTimer
           ELSE /\ previewLoading' = TRUE
                /\ timer' = url
                /\ previewData' = previewData
    /\ UNCHANGED <<fields, fieldsAdded, tags, draft, inFlight, fetchesStarted, imageValue>>
    /\ UNCHANGED <<appState, activeView, itemModalOpen, selectedItem, collectionModalOpen,
                   editingCollection, alertDialog, created, createdCols, lastOp,
                   searchQuery, sortOption, filterOptions, storage, thrown>>

\* 700 ms after the last edit the timeout callback runs and calls fetch with
\* the url of its closure
TimerFires ==
    /\ timer # NoTimer
    /\ fetchesStarted < MaxFetches
    /\ inFlight' = inFlight \cup { [n |-> fetchesStarted + 1, url |-> timer] }
    /\ fetchesStarted' = fetchesStarted + 1
    /\ timer' = NoTimer
    /\ UNCHANGED <<fields, fieldsAdded, tags, draft, watchedUrl, previewData,
                   previewLoading, imageValue>>
    /\ UNCHANGED <<appState, activeView, itemModalOpen, selectedItem, collectionModalOpen,
                   editingCollection, alertDialog, created, createdCols, lastOp,
                   searchQuery, sortOption, filterOptions, storage, thrown>>

\* a fetch settles: the rest of the timeout callback runs (setData, then
\* setLoading(false) in finally), and the effect on [previewData] after it
FetchSettles ==
    /\ \E r \in inFlight, outcome \in FetchOutcomes :
        /\ inFlight' = inFlight \ {r}
        /\ previewData' = fetched(r.url, outcome)
        /\ previewLoading' = FALSE
        /\ imageValue' = autoFill(previewData', imageValue)
    /\ UNCHANGED <<fields, fieldsAdded, tags, draft, watchedUrl, timer, fetchesStarted>>
    /\ UNCHANGED <<appState, activeView, itemModalOpen, selectedItem, collectionModalOpen,
                   editingCollection, alertDialog, created, createdCols, lastOp,
                   searchQuery, sortOption, filterOptions, storage, thrown>>

\* the image field is edited by hand: cleared, or an address typed
setImageValue ==
    /\ \E v \in { <<>>, <<"m">> } \ {imageValue} : imageValue' = v
    /\ UNCHANGED <<fields, fieldsAdded, tags, draft, watchedUrl, previewData,
                   previewLoading, timer, inFlight, fetchesStarted>>
    /\ UNCHANGED <<appState, activeView, itemModalOpen, selectedItem, collectionModalOpen,
                   editingCollection, alertDialog, created, createdCols, lastOp,
                   searchQuery, sortOption, filterOptions, storage, thrown>>

NextLinkPreview ==
    \/ setWatchedUrl
    \/ TimerFires
    \/ FetchSettles
    \/ setImageValue

SpecLinkPreview == Init /\ [][NextLinkPreview]_vars

----------------------------------------------------------------------------
(* Properties *)

collections == appState.collections
items == appState.items

\* the ids of the stored items that point to collection id
MembersOf(its, id) == { it.id : it \in { x \in Range(its) : x.collectionId = id } }

\* C1: after every mutation operation, an item id is in collection c's itemIds
\* if and only if items holds an item with that id whose collectionId is c.id.
C1_ItemIdsConsistent ==
    \A c \in Range(collections) :
        \A id \in ItemKeys(items) \cup Range(c.itemIds) :
            id \in Range(c.itemIds)
                <=> (HasItem(items, id) /\ GetItem(items, id).collectionId = c.id)

\* C2: after create and delete operations only, every collection's itemIds is
\* exactly the ids of the stored items pointing to it, each listed once, the
\* most recently created first.
C2_ItemIdsExactNewestFirst ==
    \A c \in Range(collections) :
        /\ Range(c.itemIds) = MembersOf(items, c.id)
        /\ NoDup(c.itemIds)
        /\ \A i, j \in 1..Len(c.itemIds) :
            i < j => GetItem(items, c.itemIds[i]).dateAdded
                        > GetItem(items, c.itemIds[j]).dateAdded

\* Two items created into one collection, after another item was deleted
C2_Witness ==
    /\ \E c \in Range(collections) : Len(c.itemIds) >= 2
    /\ created > Len(items)

\* C4: after create and delete operations, every item's collectionId names an
\* existing collection or else the item shows in no collection's view (only
\* under 'all' / 'favorites'), and no itemIds holds an id that is not a key of items.
C4_ReferentialIntegrity ==
    /\ \A it \in Range(items) :
        \/ HasCollection(collections, it.collectionId)
        \/ \A c \in Range(collections) : it \notin Range(viewFilter(items, c.id))
    /\ \A c \in Range(collections) : Range(c.itemIds) \subseteq ItemKeys(items)

\* An item was deleted from a collection that still lists another item
C4_Witness ==
    /\ lastOp.op = "deleteItem" /\ lastOp.existed
    /\ \E c \in Range(collections) : c.itemIds # <<>>

\* C3: deleteCollection(id) removes the collection with that id and, in the
\* same step, every item whose collectionId is id; all other collections and
\* all other items are unchanged.
C3_DeleteCollectionCascades ==
    [][lastOp'.op = "deleteCollection" =>
        LET id == lastOp'.id
        IN /\ ~HasCollection(collections', id)
           /\ \A it \in Range(items') : it.collectionId # id
           /\ collections' = SelectSeq(collections, LAMBDA c : c.id # id)
           /\ items' = SelectSeq(items, LAMBDA it : it.collectionId # id)
           /\ appState'.darkMode = appState.darkMode]_vars

\* A collection holding items was deleted while another collection and its
\* item stayed
C3_Witness ==
    /\ lastOp.op = "deleteCollection" /\ lastOp.existed /\ lastOp.removed >= 1
    /\ collections # <<>>
    /\ items # <<>>

\* C5: saveItem(item) with a new id stores the item under item.id and prepends
\* the id to the itemIds of the collection item.collectionId names; every
\* other itemIds and every other stored item are unchanged.
C5_SaveNewPrepends ==
    [][(lastOp'.op = "saveItem" /\ ~HasItem(items, lastOp'.id)) =>
        LET id == lastOp'.id
        IN /\ HasItem(items', id)
           /\ GetItem(items', id).id = id
           /\ SelectSeq(items', LAMBDA it : it.id # id) = items
           /\ Len(collections') = Len(collections)
           /\ \A k \in 1..Len(collections) :
                collections'[k] =
                    IF collections[k].id = GetItem(items', id).collectionId
                    THEN [collections[k] EXCEPT !.itemIds = <<id>> \o collections[k].itemIds]
                    ELSE collections[k]]_vars

\* A second item was created into a collection, next to another collection
C5_Witness ==
    /\ lastOp.op = "saveItem" /\ ~lastOp.existed
    /\ Len(collections) >= 2
    /\ \E c \in Range(collections) : Len(c.itemIds) >= 2 /\ c.itemIds[1] = lastOp.id

\* C6: saveItem(item) with an id already stored replaces that item in place:
\* every collection's itemIds (membership and order) is what it was before.
C6_SaveExistingKeepsItemIds ==
    [][(lastOp'.op = "saveItem" /\ HasItem(items, lastOp'.id)) =>
        /\ collections' = collections
        /\ Len(items') = Len(items)
        /\ \A k \in 1..Len(items) :
            items'[k].id = items[k].id
            /\ (items[k].id # lastOp'.id => items'[k] = items[k])]_vars

\* A stored item was saved again and its collection lists two items
C6_Witness ==
    /\ lastOp.op = "saveItem" /\ lastOp.existed
    /\ \E c \in Range(collections) : Len(c.itemIds) >= 2 /\ lastOp.id \in Range(c.itemIds)

\* C7: deleteItem(id) with id stored removes that item and removes id from the
\* itemIds of the collection the item's collectionId names; all other items,
\* the relative order of the remaining ids in every itemIds, and darkMode are
\* unchanged.
C7_DeleteItemRemovesId ==
    [][(lastOp'.op = "deleteItem" /\ HasItem(items, lastOp'.id)) =>
        LET id == lastOp'.id
            owner == GetItem(items, id).collectionId
        IN /\ items' = SelectSeq(items, LAMBDA it : it.id # id)
           /\ Len(collections') = Len(collections)
           /\ \A k \in 1..Len(collections) :
                collections'[k] =
                    IF collections[k].id = owner
                    THEN [collections[k] EXCEPT
                            !.itemIds = SelectSeq(collections[k].itemIds, LAMBDA x : x # id)]
                    ELSE collections[k]
           /\ appState'.darkMode = appState.darkMode]_vars

\* A stored item was deleted from a collection that still lists another item,
\* in dark mode
C7_Witness ==
    /\ lastOp.op = "deleteItem" /\ lastOp.existed
    /\ \E c \in Range(collections) : c.itemIds # <<>>
    /\ appState.darkMode

C9_EditKeepsIdAndItemIds ==
    [][lastOp'.op = "editCollection" =>
        /\ Len(collections') = Len(collections)
        /\ \A k \in 1..Len(collections) :
            IF collections[k].id = lastOp'.id
            THEN /\ collections'[k].id = collections[k].id
                 /\ collections'[k].itemIds = collections[k].itemIds
            ELSE collections'[k] = collections[k]
        /\ items' = items
        /\ appState'.darkMode = appState.darkMode]_vars

\* The edited collection lists an item that holds a value under a field id
\* the collection no longer declares, and another collection exists
C9_Witness ==
    /\ lastOp.op = "editCollection"
    /\ Len(collections) >= 2
    /\ \E c \in Range(collections) :
        /\ c.id = lastOp.id
        /\ \E it \in Range(items) :
            /\ it.id \in Range(c.itemIds)
            /\ \E fid \in DOMAIN it.fieldValues : \A f \in Range(c.fields) : f.id # fid

\* C10: createCollection(def) appends def as the last collection, leaves the
\* existing collections, their order and all items unchanged, and makes def.id
\* the active view; it is issued only with a name that is non-empty after
\* trimming, and def starts with empty itemIds.
C10_CreateAppendsAndSelects ==
    [][lastOp'.op = "createCollection" =>
        LET def == collections'[Len(collections')]
        IN /\ collections' = Append(collections, def)
           /\ def.id = lastOp'.id
           /\ def.itemIds = <<>>
           /\ trim(def.name) # <<>>
           /\ items' = items
           /\ activeView' = def.id]_vars

\* A collection was created next to an existing collection that holds an item
C10_Witness ==
    /\ lastOp.op = "createCollection"
    /\ Len(collections) >= 2
    /\ items # <<>>
    /\ activeView = lastOp.id

\* C11: deleteCollection(id) sets the active view to 'all' when the active view
\* was id, and leaves the active view unchanged when it was anything else.
C11_DeleteCollectionFallsBackToAll ==
    [][lastOp'.op = "deleteCollection" =>
        /\ activeView = lastOp'.id => activeView' = "all"
        /\ activeView # lastOp'.id => activeView' = activeView]_vars

\* A collection was deleted while another collection was the active view
C11_Witness ==
    /\ lastOp.op = "deleteCollection" /\ lastOp.existed
    /\ HasCollection(collections, activeView)

\* Item values saveItem can be handed: any id (stored or not), any collection
\* id (existing or not), either favourite flag, and the field values of a
\* stored item or none
SaveItemInputs ==
    { Item(id, cid, d, fav, fv) :
        id \in ItemIdPool, cid \in CollectionIdPool, d \in {now(created + 1)},
        fav \in BOOLEAN,
        fv \in { <<>> } \cup { it.fieldValues : it \in Range(items) } }

\* C12: saveItem is idempotent: in every state and for every item value, new
\* or stored, saving it twice in a row yields the same AppState (items, every
\* collection's itemIds, darkMode) as saving it once.
C12_SaveItemIdempotent ==
    \A it \in SaveItemInputs :
        handleSaveItem(handleSaveItem(appState, it), it) = handleSaveItem(appState, it)

\* A stored item was saved again, its collection lists two items, and an id
\* not stored yet can still be saved into an existing collection
C12_Witness ==
    /\ lastOp.op = "saveItem" /\ lastOp.existed
    /\ \E c \in Range(collections) : Len(c.itemIds) >= 2
    /\ \E it \in SaveItemInputs :
        ~HasItem(items, it.id) /\ HasCollection(collections, it.collectionId)

\* C13: an item's dateAdded is assigned when the item is created and never
\* changed afterwards: every stored item carries the instant of the creation
\* that handed out its id, whatever edits followed.
C13_DateAddedFixedAtCreation ==
    \A it \in Range(items) :
        \E n \in 1..created : it.id = newItemId(n) /\ it.dateAdded = now(n)

\* An item was edited through the item form after a later item was created
C13_Witness ==
    /\ lastOp.op = "saveItem" /\ lastOp.existed
    /\ GetItem(items, lastOp.id).dateAdded < created

\* every FilterOptions value over the status texts of the sample shelf: 'has
\* rating' on or off, and up to two status values
FilterOptionInputs ==
    LET statuses == { Chars_Watched, Chars_Queued, Chars_Read, Chars_Reading }
    IN { [onlyHasRating |-> r, statusValues |-> sv] :
            r \in BOOLEAN,
            sv \in { <<>> } \cup { <<a>> : a \in statuses }
                   \cup { p \in statuses \X statuses : p[1] # p[2] } }

\* the input of the search stage, and of the attribute filters
viewNarrowed == viewFilter(appState.items, activeView)
searchNarrowed == searchFilter(viewNarrowed, searchQuery)

\* C14: filter monotonicity: for every view, search query and attribute-filter
\* set, the output of each pipeline stage is a subset of the previous stage's
\* output (all items, view-narrowed, searched, rating-filtered,
\* status-filtered), and sorting neither adds nor removes items.
C14_FilterMonotonicity ==
    \A options \in FilterOptionInputs :
        LET rated == ratingFilter(searchNarrowed, options)
            narrowed == statusFilter(rated, options)
            sorted == sort(narrowed, sortOption)
        IN /\ Range(viewNarrowed) \subseteq Range(appState.items)
           /\ Range(searchNarrowed) \subseteq Range(viewNarrowed)
           /\ Range(rated) \subseteq Range(searchNarrowed)
           /\ Range(narrowed) \subseteq Range(rated)
           /\ narrowed = narrowedItems(options)
           /\ Range(sorted) = Range(narrowed)
           /\ Len(sorted) = Len(narrowed)

\* Every stage drops something: the view, then the search, then the filters,
\* and an item is left
C14_Witness ==
    /\ Len(viewNarrowed) < Len(appState.items)
    /\ Len(searchNarrowed) < Len(viewNarrowed)
    /\ Len(filteredItems) < Len(searchNarrowed)
    /\ Len(filteredItems) >= 1

\* text holds query as a run of consecutive characters
contains(text, query) ==
    \E i \in 0..Len(text) :
        /\ i + Len(query) <= Len(text)
        /\ \A k \in 1..Len(query) : text[i + k] = query[k]

\* C15: search stage: with an empty query the stage returns its input
\* unchanged; with a non-empty query it keeps exactly the items holding a
\* value whose lowercased string contains the lowercased query; the query
\* "nolan" keeps an item holding "Chris Nolan".
C15_SearchStage ==
    \A query \in SearchInputs :
        LET out == searchFilter(viewNarrowed, query)
        IN /\ query = <<>> => out = viewNarrowed
           /\ query # <<>> =>
                out = SelectSeq(viewNarrowed, LAMBDA i :
                        \E id \in DOMAIN i.fieldValues :
                            contains(toLowerCase(String(i.fieldValues[id])),
                                     toLowerCase(query)))
           /\ \A i \in Range(viewNarrowed) :
                (\E id \in DOMAIN i.fieldValues : i.fieldValues[id] = Str(Chars_ChrisNolan))
                    => i \in Range(searchFilter(viewNarrowed, Chars_nolan))

\* "nolan" is searched: the item holding "Chris Nolan" is shown and an item of
\* the view is not
C15_Witness ==
    /\ searchQuery = Chars_nolan
    /\ \E i \in Range(filteredItems) :
        \E id \in DOMAIN i.fieldValues : i.fieldValues[id] = Str(Chars_ChrisNolan)
    /\ Len(filteredItems) < Len(viewNarrowed)

\* the first field of type `type` of the collection item i points to exists
\* and i's value under it satisfies test
FirstFieldValue(i, type, test(_)) ==
    \E c \in Range(collections) :
        /\ c.id = i.collectionId
        /\ \E k \in 1..Len(c.fields) :
            /\ c.fields[k].type = type
            /\ \A j \in 1..(k - 1) : c.fields[j].type # type
            /\ c.fields[k].id \in DOMAIN i.fieldValues
            /\ test(i.fieldValues[c.fields[k].id])

C17_StatusesFromSearchNarrowed ==
    LET expected ==
            { String(i.fieldValues[fieldOfType(collectionOf(i), "status").id]) :
                i \in { x \in Range(searchNarrowed) :
                    FirstFieldValue(x, "status", LAMBDA v : ~falsy(v)) } }
    IN /\ Range(availableStatuses) = expected
       /\ Len(availableStatuses) = Cardinality(expected)
       /\ \A a, b \in 1..Len(availableStatuses) :
            a < b => codeUnitLess(availableStatuses[a], availableStatuses[b])

\* s in the opposite order
Reverse(s) == [k \in 1..Len(s) |-> s[Len(s) + 1 - k]]

\* C18: sorting the same filtered set by date_desc and by date_asc yields
\* exactly reversed orders whenever no two items of the set share dateAdded.
C18_DateSortsAreReversed ==
    \A options \in FilterOptionInputs :
        LET set == narrowedItems(options)
        IN (\A a, b \in 1..Len(set) : a # b => set[a].dateAdded # set[b].dateAdded)
            => sort(set, "date_desc") = Reverse(sort(set, "date_asc"))

\* Three or more items added at different instants are shown oldest first
C18_Witness ==
    /\ sortOption = "date_asc"
    /\ Len(filteredItems) >= 3
    /\ \A a, b \in 1..Len(filteredItems) :
        a < b => filteredItems[a].dateAdded < filteredItems[b].dateAdded
    /\ sort(narrowedItems(filterOptions), "date_desc") = Reverse(filteredItems)

\* C19: loading fails closed on malformed persisted state: when the text stored
\* under the key is not valid JSON, load yields the seed AppState and no parse
\* error propagates to the caller.
C19_MalformedLoadFailsClosed ==
    /\ thrown = "none"
    /\ SyntaxError(storage) => appState = SEED_DATA

\* C20: persistence round trip: every step that changes AppState is followed
\* by a write of the whole AppState under the key; reloading yields
\* collections, items and darkMode equal to those before the reload; and when
\* nothing is stored under the key, load yields the seed state.
C20_PersistenceRoundTrip ==
    [][/\ (mounted /\ appState' # appState) => storage' = JSON_stringify(appState')
       /\ (lastOp'.op = "reload" /\ mounted /\ storage # NoStickyValue) =>
            /\ thrown' = "none"
            /\ appState'.collections = appState.collections
            /\ appState'.items = appState.items
            /\ appState'.darkMode = appState.darkMode
       /\ (lastOp'.op = "reload" /\ storage = NoStickyValue) =>
            /\ thrown' = "none"
            /\ appState' = SEED_DATA]_vars

\* The page was reloaded over two collections and an item, in dark mode
C20_Witness ==
    /\ lastOp.op = "reload"
    /\ Len(collections) >= 2
    /\ \E c \in Range(collections) : c.itemIds # <<>>
    /\ appState.darkMode
    /\ storage = JSON_stringify(appState)

----------------------------------------------------------------------------
(* Confirmation before deletion *)

\* ids of the stored collections
CollectionIds(state) == { c.id : c \in Range(state.collections) }

\* a step that takes an item or a collection out of AppState
Removes ==
    \/ ItemKeys(appState.items) \ ItemKeys(appState'.items) # {}
    \/ CollectionIds(appState) \ CollectionIds(appState') # {}

\* C22: deletion happens only after confirmation. A step that opens the
\* confirmation dialog leaves AppState unchanged; a step that closes it
\* without confirming leaves AppState unchanged; and a step removes an item
\* or a collection only when it confirms an open dialog, and then it removes
\* exactly the item (or the collection, with the items that belong to it)
\* named when the dialog was opened.
C22_DeleteOnlyAfterConfirmation ==
    [][/\ (alertDialog = NullAlert /\ alertDialog' # NullAlert) => appState' = appState
       /\ (alertDialog # NullAlert /\ alertDialog' = NullAlert /\ lastOp'.op = "none")
            => appState' = appState
       /\ Removes =>
            /\ alertDialog # NullAlert /\ alertDialog' = NullAlert
            /\ lastOp'.id = alertDialog.id
            /\ alertDialog.kind = "item" =>
                /\ ItemKeys(appState'.items) = ItemKeys(appState.items) \ {alertDialog.id}
                /\ CollectionIds(appState') = CollectionIds(appState)
            /\ alertDialog.kind = "collection" =>
                /\ CollectionIds(appState') = CollectionIds(appState) \ {alertDialog.id}
                /\ appState'.items
                     = Filter(appState.items,
                              { it \in Range(appState.items) :
                                  it.collectionId # alertDialog.id })]_vars

\* The dialog was confirmed and the deletion took something out, while other
\* items or collections stay stored
C22_Witness ==
    /\ lastOp.op \in {"deleteItem", "deleteCollection"} /\ lastOp.existed
    /\ alertDialog = NullAlert
    /\ items # <<>>
    /\ collections # <<>>

\* C26: editing an existing item through the item form never changes the
\* item's collectionId: whatever the view the item was opened from, the item
\* stored by the save has the collectionId the stored item had.
C26_EditKeepsCollectionId ==
    [][(lastOp'.op = "saveItem" /\ lastOp'.existed) =>
        GetItem(appState'.items, lastOp'.id).collectionId
          = GetItem(appState.items, lastOp'.id).collectionId]_vars

\* C27: in every reachable state the active view is 'all', 'favorites' or the
\* id of a collection that exists in collections.
C27_ActiveViewExists ==
    activeView \in {"all", "favorites"} \cup CollectionIds(appState)

\* A collection was deleted while a collection that still exists is the
\* active view, and another stored collection is not the active view
C27_Witness ==
    /\ lastOp.op = "deleteCollection" /\ lastOp.existed
    /\ activeView \in CollectionIds(appState)
    /\ CollectionIds(appState) \ {activeView} # {}

\* C30: no collection's itemIds contains the same item id twice.
C30_ItemIdsNoDuplicates ==
    \A c \in Range(collections) : NoDup(c.itemIds)

\* A stored item was saved again while its id is listed by a collection that
\* lists two ids
C30_Witness ==
    /\ lastOp.op = "saveItem" /\ lastOp.existed
    /\ \E c \in Range(collections) :
        /\ Len(c.itemIds) >= 2
        /\ lastOp.id \in Range(c.itemIds)

----------------------------------------------------------------------------
(* Rating sort *)

\* the rating the sort is to order an item by: the number the value of the
\* first rating-type field of the item's own collection coerces to, and 0 when
\* the collection does not resolve, has no rating field, or the value is
\* absent or not numeric
ratingOrZero(i) ==
    IF ~HasCollection(collections, i.collectionId) THEN 0
    ELSE LET col == FindCollection(collections, i.collectionId)
             ks == { k \in 1..Len(col.fields) : col.fields[k].type = "rating" }
         IN IF ks = {} THEN 0
            ELSE LET f == col.fields[CHOOSE k \in ks : \A j \in ks : k <= j]
                 IN IF f.id \notin DOMAIN i.fieldValues THEN 0
                    ELSE IF Number(i.fieldValues[f.id]).nan THEN 0
                    ELSE Number(i.fieldValues[f.id]).n

\* position of an item in a list of distinct items
PositionIn(its, i) == CHOOSE k \in 1..Len(its) : its[k] = i

\* out holds the items of in, ordered by le on ratingOrZero, items of equal
\* rating in the order they have in in
SortedByRating(in, out, le(_, _)) ==
    /\ Len(out) = Len(in)
    /\ Range(out) = Range(in)
    /\ \A a, b \in 1..Len(out) :
        a < b =>
            /\ le(ratingOrZero(out[a]), ratingOrZero(out[b]))
            /\ ratingOrZero(out[a]) = ratingOrZero(out[b])
                => PositionIn(in, out[a]) < PositionIn(in, out[b])

\* C25: rating sort. For every filtered list, sorting by rating_desc yields
\* the list in non-increasing order of rating and sorting by rating_asc in
\* non-decreasing order, the rating of an item being the numerically coerced
\* value of the first rating-type field of its own collection, or 0 when the
\* collection does not resolve or has no rating field or the value is absent
\* or not numeric; items of equal rating keep their input order.
C25_RatingSort ==
    \A options \in FilterOptionInputs :
        LET set == narrowedItems(options)
        IN /\ SortedByRating(set, sort(set, "rating_desc"), LAMBDA x, y : x >= y)
           /\ SortedByRating(set, sort(set, "rating_asc"), LAMBDA x, y : x <= y)

\* C29: every status value in the active status-filter set is among the
\* status chips currently offered (availableStatuses).
C29_ActiveStatusesOffered ==
    Range(filterOptions.statusValues) \subseteq Range(availableStatuses)

----------------------------------------------------------------------------
(* The collection dialog's field list *)

C28_SameTitleField ==
    /\ cardTitleField(fields) = sortTitleField(fields)
    /\ formTitleField(fields) = sortTitleField(fields)

----------------------------------------------------------------------------
(* The tag list *)

\* C24: the value of a tags field holds no empty entry and no two equal
\* entries, after any sequence of tag commits, tag removals and backspace
\* deletions in the tag box.
C24_TagsDistinctNonEmpty ==
    /\ NoDup(tags)
    /\ \A k \in 1..Len(tags) : tags[k] # <<>>

----------------------------------------------------------------------------
(* Link preview *)

\* C23: the link preview ignores stale in-flight results. When a fetch
\* settles that was started for a url other than the url now watched, the
\* step changes neither the preview data nor the loading flag nor the image
\* field; and after every step the preview shown (the data, once loading is
\* over) belongs to the url now watched.
C23_StaleFetchIgnored ==
    [][/\ \A r \in inFlight :
            (r \notin inFlight' /\ r.url # watchedUrl)
                => UNCHANGED <<previewData, previewLoading, imageValue>>
       /\ (~previewLoading' /\ ~previewData'.null)
            => previewData'.domain = hostname(watchedUrl')]_vars

====
